---- MODULE Spec2Model ----
(***************************************************************************)
(* Draft ledger of fantrax_assistant: the DraftState object                *)
(* (src/fantrax_assistant/draft_state.py), the JSON file it persists to,   *)
(* and the CLI / web commands that construct a DraftState per invocation   *)
(* (src/fantrax_assistant/draft.py, src/web/main.py).                      *)
(*                                                                         *)
(* Two levels are modelled over the same state file:                       *)
(*   Spec      one long-lived DraftState object; every method call is one  *)
(*             atomic action (the whole method, its save() included), and  *)
(*             so is the command 'init', which replaces the teams.         *)
(*   SpecProc  operating-system processes, each running one command:       *)
(*             construct DraftState (load), call the method, save (open    *)
(*             for writing truncates, then json.dump writes), answer.      *)
(*             The file system steps of different processes interleave;    *)
(*             a process may die between any two of its steps.             *)
(*   SpecSolo  the same commands, one process at a time (single writer).   *)
(*                                                                         *)
(*   SpecIO    Spec on a file system whose mkdir, open and write may raise. *)
(*   SpecCmd   single commands, each run to its end.                       *)
(*   SpecEngine  the recommendation engine (suggest.py) called on the       *)
(*             ledger and a loaded DraftConfig, with the autocomplete      *)
(*             request.  get_recommendations takes one step for each       *)
(*             player it scores, since each score reads recent_form.json   *)
(*             again; the recent-form scraper, a process of its own, may   *)
(*             truncate and rewrite the file between two such steps.       *)
(*   SpecMatch, SpecScore  functions of DraftConfig and of the engine      *)
(*             applied to chosen arguments.                                *)
(*   SpecBoot  a command or the web application from load_all_data on.     *)
(*   SpecJson  the text json.dump writes for a ledger and what json.load   *)
(*             makes of it, of the whole text, of a text cut short and of  *)
(*             a text with the tail of a longer one behind it.             *)
(*                                                                         *)
(* The 'last_updated' timestamp that save() writes is never read back by   *)
(* load() or by any handler; the file content is modelled with the length  *)
(* of the timestamp only, which counts in the length of the document       *)
(* (DocSize).  SpecJson writes the document out character by character;    *)
(* its length is DocSize.                                                  *)
(***************************************************************************)
EXTENDS FiniteSets, Integers, Sequences, TLC

\* ------------------------------------------------------------------ bounds
NumPlayers == 2
NumTeams == 2
MaxVersion == 2
NumProcs == 2
MaxCommands == 3
MaxCalls == 2
MaxScrapes == 1

\* ------------------------------------------------------------ input domains
PlayerList == <<"Son", "Robertson", "Saka", "Salah">>
PlayerNames == {PlayerList[i] : i \in 1..NumPlayers}
TeamList == <<"Team 1", "Team 2", "Team 3", "Team 4">>
TeamNames == {TeamList[i] : i \in 1..NumTeams}
Procs == 1..NumProcs
Versions == 1..MaxVersion
DefaultTeam == "Team 1"

PositionList == <<"F", "M,F", "M", "F">>
ClubList == <<"TOT", "LIV", "ARS", "LIV">>

PlayerIndex(name) == CHOOSE i \in 1..Len(PlayerList) : PlayerList[i] = name

\* One entry of adp_rankings.json 'rankings'.  The file is rewritten by the ADP
\* scraper; version v of it gives player i the ADP 10 * i + 2 * v.
RankingRecord(i, v) ==
  [player |-> PlayerList[i], position |-> PositionList[i], team |-> ClubList[i],
   rank |-> i, adp |-> 10 * i + 2 * v, fpts |-> 200 - 10 * i, fpg |-> 8 - i]

\* DraftConfig.rankings['rankings'] after loading version v, by player name.
RankingsTable(v) == [n \in PlayerNames |-> RankingRecord(PlayerIndex(n), v)]

\* ------------------------------------------------------------------ strings
\* Python strings whose characters the code looks at (str.lower, str.upper,
\* str.strip, str.split, 'in', indexing) are taken apart into their characters.
Chars(s) ==
  CASE s = "" -> <<>>
    [] s = "Son" -> <<"S", "o", "n">>
    [] s = "Robertson" -> <<"R", "o", "b", "e", "r", "t", "s", "o", "n">>
    [] s = "Saka" -> <<"S", "a", "k", "a">>
    [] s = "Salah" -> <<"S", "a", "l", "a", "h">>
    [] s = "Robert" -> <<"R", "o", "b", "e", "r", "t">>
    [] s = "Kane" -> <<"K", "a", "n", "e">>
    [] s = " SON" -> <<" ", "S", "O", "N">>
    [] s = "son\t" -> <<"s", "o", "n", "\t">>
    [] s = "HEUNG-MIN  SON " ->
         <<"H", "E", "U", "N", "G", "-", "M", "I", "N", " ", " ", "S", "O", "N",
           " ">>
    [] s = "Son\tHeung-Min" ->
         <<"S", "o", "n", "\t", "H", "e", "u", "n", "g", "-", "M", "i", "n">>
    [] s = "Son Heung-Min" ->
         <<"S", "o", "n", " ", "H", "e", "u", "n", "g", "-", "M", "i", "n">>
    [] s = "Heung-Min Son" ->
         <<"H", "e", "u", "n", "g", "-", "M", "i", "n", " ", "S", "o", "n">>
    [] s = "Bukayo Saka" ->
         <<"B", "u", "k", "a", "y", "o", " ", "S", "a", "k", "a">>
    [] s = "F" -> <<"F">>
    [] s = "D" -> <<"D">>
    [] s = "M" -> <<"M">>
    [] s = "G" -> <<"G">>
    [] s = "M,F" -> <<"M", ",", "F">>
    [] s = "f" -> <<"f">>
    [] s = "s" -> <<"s">>
    [] s = "so" -> <<"s", "o">>
    [] s = "SO" -> <<"S", "O">>
    [] s = "TOT" -> <<"T", "O", "T">>
    [] s = "LIV" -> <<"L", "I", "V">>
    [] s = "ARS" -> <<"A", "R", "S">>
    [] s = "liv" -> <<"l", "i", "v">>
    [] s = "My Team" ->
         <<"M", "y", " ", "T", "e", "a", "m">>
    [] s = "Team 1" ->
         <<"T", "e", "a", "m", " ", "1">>
    [] s = "Team 2" ->
         <<"T", "e", "a", "m", " ", "2">>
    [] s = "Team 3" ->
         <<"T", "e", "a", "m", " ", "3">>
    [] s = "Team 4" ->
         <<"T", "e", "a", "m", " ", "4">>
    [] s = "Team 1, Team 2" ->
         <<"T", "e", "a", "m", " ", "1", ",", " ", "T", "e", "a", "m", " ", "2">>
    [] s = "\"A\" Team" ->
         <<"\"", "A", "\"", " ", "T", "e", "a", "m">>
    [] s = "Team 1, \"A\" Team" ->
         <<"T", "e", "a", "m", " ", "1", ",", " ", "\"", "A", "\"", " ", "T", "e", "a", "m">>
    [] s = "last_updated" ->
         <<"l", "a", "s", "t", "_", "u", "p", "d", "a", "t", "e", "d">>
    [] s = "my_team" ->
         <<"m", "y", "_", "t", "e", "a", "m">>
    [] s = "drafted_players" ->
         <<"d", "r", "a", "f", "t", "e", "d", "_", "p", "l", "a", "y", "e", "r", "s">>
    [] s = "teams" ->
         <<"t", "e", "a", "m", "s">>
    [] s = "player" ->
         <<"p", "l", "a", "y", "e", "r">>
    [] s = "position" ->
         <<"p", "o", "s", "i", "t", "i", "o", "n">>
    [] s = "team" ->
         <<"t", "e", "a", "m">>
    [] s = "adp" ->
         <<"a", "d", "p">>
    [] s = "fpts" ->
         <<"f", "p", "t", "s">>
    [] s = "fpg" ->
         <<"f", "p", "g">>
    [] s = "2025-08-30T21:15:00" ->
         <<"2", "0", "2", "5", "-", "0", "8", "-", "3", "0", "T", "2", "1", ":", "1", "5", ":", "0", "0">>
    [] s = "2025-08-30T21:15:00.123456" ->
         <<"2", "0", "2", "5", "-", "0", "8", "-", "3", "0", "T", "2", "1", ":", "1", "5", ":", "0", "0", ".", "1", "2", "3", "4", "5", "6">>

\* The strings Chars takes apart.
Strings ==
  {"", "Son", "Robertson", "Saka", "Salah", "Robert", "Kane", " SON",
   "son\t", "HEUNG-MIN  SON ", "Son\tHeung-Min", "Son Heung-Min",
   "Heung-Min Son", "Bukayo Saka", "F", "D", "M", "G", "M,F", "f", "s", "so",
   "SO", "TOT", "LIV", "ARS", "liv", "My Team", "Team 1", "Team 2", "Team 3",
   "Team 4", "Team 1, Team 2",
   "\"A\" Team", "Team 1, \"A\" Team", "last_updated", "my_team",
   "drafted_players", "teams", "player", "position", "team", "adp", "fpts",
   "fpg", "2025-08-30T21:15:00", "2025-08-30T21:15:00.123456"}

UpperLetters ==
  <<"A", "B", "C", "D", "E", "F", "G", "H", "I", "J", "K", "L", "M",
    "N", "O", "P", "Q", "R", "S", "T", "U", "V", "W", "X", "Y", "Z">>

LowerLetters ==
  <<"a", "b", "c", "d", "e", "f", "g", "h", "i", "j", "k", "l", "m",
    "n", "o", "p", "q", "r", "s", "t", "u", "v", "w", "x", "y", "z">>

LetterIndex(letters, c) == CHOOSE i \in 1..Len(letters) : letters[i] = c

\* str.lower and str.upper, on a sequence of characters.
lower(s) ==
  [i \in 1..Len(s) |->
     IF \E k \in 1..Len(UpperLetters) : UpperLetters[k] = s[i]
     THEN LowerLetters[LetterIndex(UpperLetters, s[i])] ELSE s[i]]

upper(s) ==
  [i \in 1..Len(s) |->
     IF \E k \in 1..Len(LowerLetters) : LowerLetters[k] = s[i]
     THEN UpperLetters[LetterIndex(LowerLetters, s[i])] ELSE s[i]]

SetMin(S) == CHOOSE x \in S : \A y \in S : x <= y
SetMax(S) == CHOOSE x \in S : \A y \in S : y <= x

\* The element of a one-element set (a value computed once and then named).
TheOne(S) == CHOOSE v \in S : TRUE

\* The whitespace characters of the strings modelled.
Whitespace == {" ", "\t"}

\* str.strip: leading and trailing whitespace removed.
strip(s) ==
  LET solid == {i \in 1..Len(s) : s[i] \notin Whitespace}
  IN IF solid = {} THEN <<>> ELSE SubSeq(s, SetMin(solid), SetMax(solid))

\* sub in s, for strings.
contains(s, sub) ==
  \E k \in 0..(Len(s) - Len(sub)) : SubSeq(s, k + 1, k + Len(sub)) = sub

\* str.split(): the maximal runs of non-whitespace characters, in order.
RECURSIVE split(_)
split(s) ==
  IF s = <<>> THEN <<>>
  ELSE IF s[1] \in Whitespace THEN split(Tail(s))
  ELSE LET blanks == {i \in 1..Len(s) : s[i] \in Whitespace}
           stop == IF blanks = {} THEN Len(s) + 1 ELSE SetMin(blanks)
       IN <<SubSeq(s, 1, stop - 1)>> \o split(SubSeq(s, stop, Len(s)))

\* str.split(sep) for a one-character sep
RECURSIVE split_on(_, _)
split_on(s, sep) ==
  LET seps == {i \in 1..Len(s) : s[i] = sep}
  IN IF seps = {} THEN <<s>>
     ELSE <<SubSeq(s, 1, SetMin(seps) - 1)>>
            \o split_on(SubSeq(s, SetMin(seps) + 1, Len(s)), sep)

\* The string that a sequence of characters spells.
Str(cs) == CHOOSE s \in Strings : Chars(s) = cs

\* Number of decimal digits of a natural number.
RECURSIVE Digits(_)
Digits(n) == IF n < 10 THEN 1 ELSE 1 + Digits(n \div 10)

\* ------------------------------------------------------------- DraftConfig
\* Mutant of fuzzy_match_name: names match only when equal after lower/strip.
fuzzy_match_name_exact(search_name, candidate_name) ==
  strip(lower(Chars(search_name))) = strip(lower(Chars(candidate_name)))

\* DraftConfig._fuzzy_match_name
fuzzy_match_name(search_name, candidate_name) ==
  LET search_lower == strip(lower(Chars(search_name)))
      candidate_lower == strip(lower(Chars(candidate_name)))
      search_parts == split(search_lower)
      candidate_parts == split(candidate_lower)
  IN \/ search_lower = candidate_lower
     \/ contains(candidate_lower, search_lower)
     \/ contains(search_lower, candidate_lower)
     \/ \A i \in 1..Len(search_parts) :
          \E j \in 1..Len(candidate_parts) :
            contains(candidate_parts[j], search_parts[i])

\* _fuzzy_match_name on the strings of the model, evaluated once for every
\* pair: Matching[a] holds the strings b with fuzzy_match_name(a, b).
Matching == [a \in Strings |-> {b \in Strings : fuzzy_match_name(a, b)}]

\* self._fuzzy_match_name(a, b) as the methods of DraftConfig and of the
\* engine call it: the value of fuzzy_match_name(a, b), looked up.
fuzzy_matches(a, b) == b \in Matching[a]

\* None, where a file was to be loaded (_load_json: the file is missing or
\* does not parse).
None == [none |-> TRUE]

\* The value the code's lookups return for 'nothing found' (None).
NoRecord == [player |-> "", position |-> "", team |-> "", adp |-> 0, fpts |-> 0,
             fpg |-> 0]

\* self.rankings['rankings'] is a list; the records of the table R in its order.
RankingOrder == [i \in 1..NumPlayers |-> PlayerList[i]]

\* The names of any rankings table R in the order of its list: 'rank' is the
\* place of a record in the list.
RankingList(R) ==
  [i \in 1..Cardinality(DOMAIN R) |-> CHOOSE n \in DOMAIN R : R[n].rank = i]

\* Mutant of get_player_adp: the first record is returned whatever the name.
get_player_adp_first(R, player_name) == R[RankingOrder[1]]

\* DraftConfig.get_player_adp: the first record whose name the fuzzy match
\* accepts, or None.
get_player_adp(R, player_name) ==
  LET hits == {i \in 1..Len(RankingList(R)) :
                 fuzzy_matches(player_name, R[RankingList(R)[i]].player)}
  IN IF R = None THEN NoRecord
     ELSE IF hits = {} THEN NoRecord ELSE R[RankingList(R)[SetMin(hits)]]

\* ------------------------------------------------------------- arithmetic
\* The scores are Python floats.  They are modelled as exact fractions n / d
\* with d > 0, in lowest terms; round(x, 2) is modelled as the number of
\* hundredths nearest to the fraction.
RECURSIVE GCD(_, _)
GCD(a, b) == IF b = 0 THEN a ELSE GCD(b, a % b)

Abs(x) == IF x < 0 THEN 0 - x ELSE x

Frac(n, d) ==
  LET g == GCD(Abs(n), d) IN [n |-> n \div g, d |-> d \div g]

Plus(x, y) == Frac(x.n * y.d + y.n * x.d, x.d * y.d)
Minus(x, y) == Frac(x.n * y.d - y.n * x.d, x.d * y.d)
Times(x, y) == Frac(x.n * y.n, x.d * y.d)
\* x / y for y > 0
Over(x, y) == Frac(x.n * y.d, x.d * y.n)
Less(x, y) == x.n * y.d < y.n * x.d
min(x, y) == IF Less(y, x) THEN y ELSE x
max(x, y) == IF Less(x, y) THEN y ELSE x

\* A whole number, and a decimal literal given in hundredths (0.30 is Dec(30)).
Whole(k) == Frac(k, 1)
Dec(h) == Frac(h, 100)

RECURSIVE sum(_)
sum(xs) == IF xs = <<>> THEN Whole(0) ELSE Plus(Head(xs), sum(Tail(xs)))

\* x falls exactly between two hundredths.
IsTie(x) == (200 * x.n) % (2 * x.d) = x.d

\* round(x, 2) for x >= 0, in hundredths: the values the call may return.  The
\* argument is a float, the sum or product of floats that carry binary
\* error: where the exact value is a tie the float is a little above it, a
\* little below it, or the tie itself, and the call returns the hundredth
\* above or the one below accordingly.
round2(x) ==
  LET q == (100 * x.n) \div x.d
  IN IF IsTie(x) THEN {q, q + 1}
     ELSE {(200 * x.n + x.d) \div (2 * x.d)}

\* ---- DraftConfig lookups --------------------------------------------------
\* config is the DraftConfig object as a record: rankings (the table), stats,
\* injuries, afcon, league_config (the files load_all_data read) and
\* recent_form (recent_form.json, which calculate_form_value reads on each
\* call).  A missing file and a file without entries behave alike for stats,
\* afcon and recent_form; for injuries they do not, hence 'loaded'.

\* dict.get(key, default) on a record that may lack the key.
Get(r, key, default) == IF key \in DOMAIN r THEN r[key] ELSE default

\* None, where a stats dict is expected.
NoStats == [name |-> "", matches_played |-> 0, goals |-> 0, found |-> FALSE]

Stats(name, matches_played, goals) ==
  [name |-> name, matches_played |-> matches_played, goals |-> goals,
   found |-> TRUE]

\* DraftConfig.get_player_stats
get_player_stats(config, player_name) ==
  LET hits == {i \in 1..Len(config.stats) :
                 fuzzy_matches(player_name, config.stats[i].name)}
  IN IF hits = {} THEN NoStats ELSE config.stats[SetMin(hits)]

\* DraftConfig.get_player_injury (of an injuries.json entry only 'status' and
\* 'severity' are ever read)
get_player_injury(config, player_name) ==
  LET hits == {i \in 1..Len(config.injuries.injuries) :
                 fuzzy_matches(player_name, config.injuries.injuries[i].player)}
  IN IF ~config.injuries.loaded
     THEN [status |-> "Unknown", severity |-> "Unknown"]
     ELSE IF hits = {} THEN [status |-> "Healthy", severity |-> "Healthy"]
     ELSE [status |-> config.injuries.injuries[SetMin(hits)].status,
           severity |-> config.injuries.injuries[SetMin(hits)].severity]

\* DraftConfig.get_player_afcon_status(...)['at_afcon']
get_player_afcon_status(config, player_name) ==
  \E i \in 1..Len(config.afcon) : fuzzy_matches(player_name, config.afcon[i])

\* Mutant of is_drafted: a player counts as drafted only under the very name.
is_drafted_exact(player_name, drafted_players) == player_name \in drafted_players

\* lines 156-160 of get_all_available_players
is_drafted(player_name, drafted_players) ==
  \E drafted \in drafted_players : fuzzy_matches(player_name, drafted)

\* player['stats'] = ...; player['injury'] = ... on a rankings record
Enriched(config, player) ==
  ("stats" :> get_player_stats(config, player.player))
    @@ ("injury" :> get_player_injury(config, player.player))
    @@ player

\* DraftConfig.get_all_available_players: the names of the records returned,
\* in the order of the rankings, and the rankings with those records enriched
\* in place (the list returned holds the very dicts of the rankings).
get_all_available_players(config, drafted_players) ==
  LET names == SelectSeq(RankingList(config.rankings),
                        LAMBDA n : ~is_drafted(n, drafted_players))
  IN [rankings |-> [n \in DOMAIN config.rankings |->
                      IF is_drafted(config.rankings[n].player, drafted_players)
                      THEN config.rankings[n]
                      ELSE Enriched(config, config.rankings[n])],
      available |-> names]

\* ------------------------------------------------ PlayerRecommendationEngine
\* engine is the PlayerRecommendationEngine object as a record: config,
\* my_team (a roster) and drafted_players (a set of names).

\* get_position_weight
get_position_weight(engine, position) ==
  IF engine.config.league_config = None THEN Whole(1)
  ELSE Get(engine.config.league_config.positions, position, Whole(1))

\* get_top_8_clubs
get_top_8_clubs(engine) ==
  IF engine.config.league_config = None THEN {}
  ELSE engine.config.league_config.top_8_clubs

\* calculate_base_value
calculate_base_value(engine, player) ==
  LET fpg == Whole(player.fpg)
      pos_weight == get_position_weight(engine, player.position)
      normalized == min(Times(Over(fpg, Whole(6)), Whole(100)), Whole(100))
      adjusted == Times(normalized, pos_weight)
  IN min(Times(adjusted, Dec(30)), Whole(30))

\* calculate_adp_value (current_round is not used)
calculate_adp_value(engine, player, current_round) ==
  LET normalized == max(Whole(0), Minus(Whole(100), Over(Whole(player.adp), Whole(2))))
  IN Times(normalized, Dec(7))

\* A call that returns value, and a call that raises.
Returns(value) == [raises |-> "", value |-> value]
Raises(error) == [raises |-> error, value |-> Whole(0)]

\* calculate_form_value as it would be without lines 80-83: with no
\* recent-form entry for the player, the season-stats fallback of lines 85-95
\* is reached (10.0 without stats, 5.0 with no match played, else
\* min(matches / 15.0, 1.0) * 100 * 0.20).
calculate_form_value_fallback(engine, player) ==
  LET recent_form == engine.config.recent_form
      hits == {i \in 1..Len(recent_form) :
                 fuzzy_matches(player.player, recent_form[i].player)}
      stats == Get(player, "stats", NoStats)
  IN IF hits # {}
     THEN Returns(Times(min(Times(Over(recent_form[SetMin(hits)].recent_fpg,
                                        Whole(6)), Whole(100)), Whole(100)),
                        Dec(20)))
     ELSE IF ~stats.found THEN Returns(Whole(10))
     ELSE IF stats.matches_played = 0 THEN Returns(Whole(5))
     ELSE Returns(Times(Times(min(Over(Whole(stats.matches_played), Whole(15)),
                                  Whole(1)), Whole(100)), Dec(20)))

\* calculate_form_value.  With no recent-form entry for the player, line 80
\* is reached: it reads the names 'days' and 'starts', which are bound nowhere
\* (not in the function, not in the module), and raises NameError; lines 85-95
\* are never reached.
calculate_form_value(engine, player) ==
  LET recent_form == engine.config.recent_form
      hits == {i \in 1..Len(recent_form) :
                 fuzzy_matches(player.player, recent_form[i].player)}
  IN IF hits # {}
     THEN Returns(Times(min(Times(Over(recent_form[SetMin(hits)].recent_fpg,
                                        Whole(6)), Whole(100)), Whole(100)),
                        Dec(20)))
     ELSE Raises("NameError")

\* calculate_club_bonus
calculate_club_bonus(engine, player) ==
  LET stats == Get(player, "stats", NoStats)
      top_8 == get_top_8_clubs(engine)
      bonus == engine.config.league_config.non_top_8_most_goals_bonus
  IN IF ~stats.found THEN Whole(0)
     ELSE IF engine.config.league_config = None THEN Whole(0)
     ELSE IF player.team \notin top_8 /\ stats.goals >= 5 THEN bonus
     ELSE Whole(0)

\* The multipliers table of calculate_missed_time, in hundredths.
multipliers(severity) ==
  CASE severity = "Healthy" -> 100
    [] severity = "Questionable" -> 85
    [] severity = "Doubtful" -> 60
    [] severity = "Short Term" -> 40
    [] severity = "Medium Term" -> 25
    [] severity = "Long Term" -> 10
    [] severity = "Unknown" -> 90
    [] severity = "Suspended" -> 50
    [] OTHER -> 90

\* calculate_missed_time
calculate_missed_time(engine, player) ==
  LET injury == Get(player, "injury", [severity |-> "Healthy"])
      severity == injury.severity
  IN IF get_player_afcon_status(engine.config, player.player)
     THEN Times(Dec(30), Whole(15))
     ELSE Times(Dec(multipliers(severity)), Whole(15))

\* position_multiplier
position_multiplier(player) ==
  LET position_str == Chars(player.position)
      base_multiplier ==
        IF contains(position_str, <<"F">>) THEN Dec(125)
        ELSE IF contains(position_str, <<"M">>) THEN Dec(75)
        ELSE IF contains(position_str, <<"D">>) THEN Dec(50)
        ELSE IF contains(position_str, <<"G">>) THEN Dec(25)
        ELSE Dec(50)
      num_positions ==
        1 + Cardinality({i \in 1..Len(position_str) : position_str[i] = ","})
      versatility_bonus ==
        IF contains(position_str, <<",">>)
        THEN Plus(Whole(1), Times(Dec(15), Whole(num_positions - 1)))
        ELSE Whole(1)
  IN Times(base_multiplier, versatility_bonus)

\* calculate_position_need
calculate_position_need(engine, player) ==
  LET position == player.position
      roster_rules == engine.config.league_config.roster_rules
      current_count ==
        Cardinality({i \in 1..Len(engine.my_team) :
                       contains(Chars(engine.my_team[i].position), Chars(position))})
      max_count == Get(roster_rules, position, 0)
  IN IF engine.config.league_config = None THEN Whole(5)
     ELSE IF current_count >= max_count THEN Times(Whole(3), position_multiplier(player))
     ELSE IF current_count = 0 THEN Times(Whole(15), position_multiplier(player))
     ELSE Times(Whole(10), position_multiplier(player))

\* list.sort(key=..., reverse=True) as a permutation: the indices of keys in
\* the order the sort puts them, larger keys first, equal keys in their
\* original order.  keys are integers.
sort_reverse(keys) ==
  LET place(i) == 1 + Cardinality({j \in 1..Len(keys) : keys[j] > keys[i]})
                    + Cardinality({j \in 1..(i - 1) : keys[j] = keys[i]})
  IN [k \in 1..Len(keys) |-> CHOOSE i \in 1..Len(keys) : place(i) = k]

\* calculate_position_scarcity
calculate_position_scarcity(engine, player) ==
  LET position == player.position
      player_fpg == Whole(player.fpg)
      all_players == engine.config.rankings
      names == SelectSeq(RankingList(all_players),
                 LAMBDA n : /\ contains(Chars(all_players[n].position), Chars(position))
                            /\ all_players[n].player \notin engine.drafted_players)
      order == sort_reverse([i \in 1..Len(names) |-> all_players[names[i]].fpg])
      position_players == [k \in 1..Len(names) |-> all_players[names[order[k]]]]
      ranks == {k \in 1..Len(position_players) :
                  position_players[k].player = player.player}
      player_rank == SetMin(ranks) - 1
      next_tier_start == player_rank + 1
      next_tier_end == IF player_rank + 6 < Len(position_players)
                       THEN player_rank + 6 ELSE Len(position_players)
      next_tier_players == SubSeq(position_players, next_tier_start + 1, next_tier_end)
      next_tier_avg ==
        Over(sum([i \in 1..Len(next_tier_players) |-> Whole(next_tier_players[i].fpg)]),
             Whole(Len(next_tier_players)))
      drop_off == Over(Minus(player_fpg, next_tier_avg), next_tier_avg)
      scarcity == min(Times(drop_off, Whole(5)), Whole(5))
  IN IF Len(position_players) < 2 THEN Dec(250)
     ELSE IF ranks = {} THEN Whole(1)
     ELSE IF player_rank < 5 THEN Whole(2)
     ELSE IF next_tier_start >= Len(position_players) THEN Whole(5)
     ELSE IF next_tier_avg.n = 0 THEN Whole(5)
     ELSE max(scarcity, Dec(50))

\* calculate_positional_value
calculate_positional_value(engine, player) ==
  LET position == player.position
      fpg == Whole(player.fpg)
      all_players == engine.config.rankings
      names == SelectSeq(RankingList(all_players),
                 LAMBDA n : contains(Chars(all_players[n].position), Chars(position)))
      position_players == [i \in 1..Len(names) |-> Whole(all_players[names[i]].fpg)]
      avg_fpg == Over(sum(position_players), Whole(Len(position_players)))
      above_avg == Over(Minus(fpg, avg_fpg), avg_fpg)
      normalized == Times(Over(Plus(above_avg, Whole(1)), Whole(2)), Whole(5))
  IN IF Len(position_players) = 0 THEN Dec(250)
     ELSE IF avg_fpg.n = 0 THEN Dec(250)
     ELSE max(Whole(0), min(Whole(5), normalized))

\* The eight components, in the order they are added up; raises is the error
\* calculate_form_value raised, if it did.
Components(engine, player, current_round) ==
  LET form == calculate_form_value(engine, player)
  IN [raises |-> form.raises,
      base |-> calculate_base_value(engine, player),
      club_bonus |-> calculate_club_bonus(engine, player),
      adp |-> calculate_adp_value(engine, player, current_round),
      form |-> form.value,
      injury |-> calculate_missed_time(engine, player),
      need |-> calculate_position_need(engine, player),
      scarcity |-> calculate_position_scarcity(engine, player),
      positional |-> calculate_positional_value(engine, player)]

\* base + club_bonus + adp + form + injury + need + scarcity + positional
Total(c) ==
  sum(<<c.base, c.club_bonus, c.adp, c.form, c.injury, c.need, c.scarcity,
        c.positional>>)

\* calculate_total_score: round(total, 2) in hundredths, or the error raised
\* (the set of the results the call may give).
calculate_total_score(engine, player, current_round) ==
  UNION {{[raises |-> c.raises, value |-> v] : v \in round2(Total(c))} :
           c \in {Components(engine, player, current_round)}}

\* The multipliers table of get_score_breakdown, in hundredths.
breakdown_multipliers(severity) ==
  CASE severity = "Healthy" -> 100
    [] severity = "Questionable" -> 85
    [] severity = "Doubtful" -> 60
    [] severity = "Short Term" -> 70
    [] severity = "Medium Term" -> 40
    [] severity = "Long Term" -> 10
    [] severity = "Unknown" -> 90
    [] severity = "Suspended" -> 50
    [] OTHER -> 90

\* get_score_breakdown: of the dict returned, the eight component values and
\* the total, each round(..., 2) in hundredths, the injury status and the
\* injury multiplier (in hundredths); or the error raised (the set of the
\* results the call may give).
get_score_breakdown(engine, player, current_round) ==
  UNION {{[raises |-> c.raises,
           injury_status |-> Get(player, "injury", [severity |-> "Healthy"]).severity,
           injury_multiplier |->
             breakdown_multipliers(
               Get(player, "injury", [severity |-> "Healthy"]).severity),
           base_value |-> base_value,
           club_bonus |-> club_bonus,
           adp_value |-> adp_value,
           form_value |-> form_value,
           injury_penalty |-> injury_penalty,
           position_need |-> position_need,
           scarcity |-> scarcity,
           positional_value |-> positional_value,
           total |-> total] :
             base_value \in round2(c.base),
             club_bonus \in round2(c.club_bonus),
             adp_value \in round2(c.adp),
             form_value \in round2(c.form),
             injury_penalty \in round2(c.injury),
             position_need \in round2(c.need),
             scarcity \in round2(c.scarcity),
             positional_value \in round2(c.positional),
             total \in round2(Total(c))} :
           c \in {Components(engine, player, current_round)}}

\* Python's xs[:n]
slice_to(xs, n) ==
  IF n >= 0 THEN SubSeq(xs, 1, IF n < Len(xs) THEN n ELSE Len(xs))
  ELSE SubSeq(xs, 1, IF Len(xs) + n > 0 THEN Len(xs) + n ELSE 0)


\* player['recommendation_score'] = ... on the records named in names
Scored(R, names, scores) ==
  [p \in DOMAIN R |->
     IF \E i \in 1..Len(names) : names[i] = p
     THEN ("recommendation_score" :>
             scores[CHOOSE i \in 1..Len(names) : names[i] = p].value) @@ R[p]
     ELSE R[p]]

\* get_recommendations, lines 381-383: the score of every available player, in
\* the order of the list (a is what get_all_available_players returned); the
\* set of the lists of scores the loop may give.
score_all(engine, a, current_round) ==
  UNION {{scores \in [1..Len(a.available) -> UNION {may[i] : i \in DOMAIN may}] :
            \A i \in DOMAIN may : scores[i] \in may[i]} :
           may \in {[i \in 1..Len(a.available) |->
                       calculate_total_score(
                         [engine EXCEPT !.config.rankings = a.rankings],
                         a.rankings[a.available[i]], current_round)]}}

\* get_recommendations, lines 381-388, given the scores: the error raised if
\* any, the names of the records returned, in order, and the rankings as the
\* call leaves them (the records returned are the dicts of the rankings).
\* When calculate_total_score raises for a player, the players before it have
\* got their score already.
sort_and_slice(a, scores, n) ==
  LET available == a.available
      failed == {i \in 1..Len(scores) : scores[i].raises # ""}
      order == sort_reverse([i \in 1..Len(available) |-> scores[i].value])
      sorted == [k \in 1..Len(available) |-> available[order[k]]]
  IN IF failed # {}
     THEN [raises |-> scores[SetMin(failed)].raises,
           out |-> <<>>,
           rankings |-> Scored(a.rankings, SubSeq(available, 1, SetMin(failed) - 1),
                               scores)]
     ELSE [raises |-> "",
           out |-> slice_to(sorted, n),
           rankings |-> Scored(a.rankings, available, scores)]

\* get_recommendations.  With no rankings loaded, its first statement, the
\* call of get_all_available_players, raises at self.rankings.get
\* (config.py 148): None has no attribute 'get'.  The set of the results the
\* call may give.
get_recommendations(engine, current_round, n) ==
  IF engine.config.rankings = None
  THEN {[raises |-> "AttributeError", out |-> <<>>, rankings |-> None]}
  ELSE
  UNION {{sort_and_slice(a, scores, n) :
            scores \in score_all(engine, a, current_round)} :
         a \in {get_all_available_players(engine.config,
                                          engine.drafted_players)}}

\* get_positional_rank: 999 when get_player_adp finds no record; else the
\* place, in the records whose position string contains the position of the
\* record found, sorted by fpg, of the record whose 'player' equals
\* player_name as passed; 99 when no record has that very name.
get_positional_rank(engine, player_name) ==
  LET all_players == engine.config.rankings
      player_data == get_player_adp(all_players, player_name)
      position == player_data.position
      names == SelectSeq(RankingList(all_players),
                 LAMBDA n : contains(Chars(all_players[n].position), Chars(position)))
      order == sort_reverse([i \in 1..Len(names) |-> all_players[names[i]].fpg])
      position_players == [k \in 1..Len(names) |-> all_players[names[order[k]]]]
      ranks == {k \in 1..Len(position_players) :
                  position_players[k].player = player_name}
  IN IF player_data = NoRecord THEN 999
     ELSE IF ranks = {} THEN 99
     ELSE SetMin(ranks)

\* ---- the data directory ---------------------------------------------------
\* dict.get on a dict without the key: the empty dict.
EmptyDict == [k \in {} |-> 0]

\* league_config.json as create_league_config_template writes it: no
\* 'positions', 'top_8_clubs' or bonus under scoring_rules, roster_rules keyed
\* DEF / MID / FWD / GK.
LeagueTemplate ==
  [positions |-> EmptyDict, top_8_clubs |-> {},
   non_top_8_most_goals_bonus |-> Whole(0),
   roster_rules |-> ("DEF" :> 5) @@ ("MID" :> 5) @@ ("FWD" :> 4) @@ ("GK" :> 1)]

\* league_config.json edited for a league: position weights, the top clubs,
\* the bonus, roster_rules keyed by the position codes of the rankings.
LeagueEdited ==
  [positions |-> ("M" :> Frac(11, 10)), top_8_clubs |-> {"LIV", "ARS"},
   non_top_8_most_goals_bonus |-> Whole(5),
   roster_rules |-> ("G" :> 1) @@ ("D" :> 5) @@ ("M" :> 5) @@ ("F" :> 2)]

\* Only the two files load_all_data requires are there.
BareData ==
  [league_config |-> LeagueTemplate, recent_form |-> <<>>, stats |-> <<>>,
   injuries |-> [loaded |-> FALSE, injuries |-> <<>>], afcon |-> <<>>]

\* Every file is there; recent_form.json has an entry every player of the
\* rankings resolves to ("Son" is also the first entry "Robertson" matches).
FullData ==
  [league_config |-> LeagueEdited,
   recent_form |-> <<[player |-> "Son", recent_fpg |-> Frac(31, 10)],
                     [player |-> "Saka", recent_fpg |-> Whole(4)],
                     [player |-> "Salah", recent_fpg |-> Whole(7)]>>,
   stats |-> <<Stats("Heung-Min Son", 9, 6), Stats("Bukayo Saka", 0, 0)>>,
   injuries |-> [loaded |-> TRUE,
                 injuries |-> <<[player |-> "Saka", status |-> "Out",
                                 severity |-> "Short Term"]>>],
   afcon |-> <<"Salah">>]

\* Season stats but no recent_form.json.
StatsData ==
  [league_config |-> LeagueEdited, recent_form |-> <<>>,
   stats |-> <<Stats("Heung-Min Son", 9, 6), Stats("Bukayo Saka", 0, 0)>>,
   injuries |-> [loaded |-> FALSE, injuries |-> <<>>], afcon |-> <<>>]

DataDirs == {BareData, FullData, StatsData}

\* ------------------------------------------------------------------- state
VARIABLES
  teams,            \* DraftState.teams: party -> roster (sequence of entries)
  my_team,          \* DraftState.my_team
  drafted_players,  \* DraftState.drafted_players: set of names
  state_file,       \* content of data/draft_state.json
  rankings,         \* DraftConfig.rankings['rankings'], by player name
  last,             \* history: the last method call, its pre-state and result
  external,         \* history: names mark_drafted has claimed since the last reset or init
  pc,               \* per process: position in its command
  cmd,              \* per process: the command it runs
  proc,             \* per process: its DraftState object
  resp,             \* per process: the answer of its last finished command
  acked,            \* history: claims answered with success
  completed,        \* history: names claimed by commands that ran to their end
  observed,         \* history: what each process's last read of the file saw
  started,          \* number of commands started
  data,             \* the data directory: the files besides the rankings
  eng,              \* history: the last call on the engine and what it gave
  call,             \* a function applied to chosen arguments, and its result
  boot              \* an entry point: what it loaded and what it went on to do

objVars == <<teams, my_team, drafted_players, rankings, last, external>>
procVars == <<pc, cmd, proc, resp, acked, completed, observed, started>>
engVars == <<data, eng, call, boot>>
vars == <<teams, my_team, drafted_players, state_file, rankings, last, external,
          pc, cmd, proc, resp, acked, completed, observed, started, data, eng,
          call, boot>>

\* ------------------------------------------------------------ DraftState
Range(s) == {s[i] : i \in 1..Len(s)}

\* The state load() falls back to (file missing, or any exception).
DefaultState ==
  [teams |-> (DefaultTeam :> <<>>), my_team |-> DefaultTeam, drafted_players |-> {}]

\* The object as a record of its fields.
Self == [teams |-> teams, my_team |-> my_team, drafted_players |-> drafted_players]

\* ---- the state file -------------------------------------------------------
\* No file yet (first run).
MissingFile ==
  [kind |-> "missing", last_updated |-> 0, my_team |-> "",
   drafted_players |-> <<>>, teams |-> <<>>]

\* The file exists but holds no complete JSON document: open('w') has
\* truncated it and json.dump has not (or not completely) written it.
PartialFile ==
  [kind |-> "partial", last_updated |-> 0, my_team |-> "",
   drafted_players |-> <<>>, teams |-> <<>>]

\* The file holds, in size bytes, a complete document followed by the last
\* bytes of a longer one written before it: json.load raises 'Extra data'.
GarbledFile(size) ==
  [kind |-> "garbled", last_updated |-> 0, my_team |-> "",
   drafted_players |-> <<>>, teams |-> <<>>, size |-> size]

\* All orders in which list(a_set) may enumerate a set (the order of a set of
\* strings changes with the hash seed of the process).
ListsOf(S) ==
  {s \in [1..Cardinality(S) -> S] : \A x \in S : \E i \in 1..Cardinality(S) : s[i] = x}

\* json.dump(data, f, indent=2), in bytes.  A string is written between
\* quotes; a tab, a quote and a backslash in it take two bytes each.
JsonStr(s) ==
  LET cs == Chars(s)
  IN Len(cs) + Cardinality({i \in 1..Len(cs) : cs[i] \in {"\t", "\"", "\\"}}) + 2

\* datetime.now().isoformat(), in characters: YYYY-MM-DDTHH:MM:SS.ffffff, and
\* YYYY-MM-DDTHH:MM:SS when the microsecond of the clock reading is 0.
StampLens == {19, 26}

\* A float with a whole value, as json.dump writes it: 12.0
FloatSize(k) == Digits(k) + 2

\* One roster entry: '{', six lines 'key: value' indented by 8, '}' indented
\* by 6.  adp, fpts and fpg are floats (adp_scraper.py 43-61).
EntrySize(e) ==
  8 + (20 + JsonStr(e.player)) + (22 + JsonStr(e.position))
    + (18 + JsonStr(e.team)) + (17 + FloatSize(e.adp))
    + (18 + FloatSize(e.fpts)) + (16 + FloatSize(e.fpg)) + 7

RECURSIVE EntriesSize(_)
EntriesSize(roster) ==
  IF roster = <<>> THEN 0
  ELSE EntrySize(Head(roster)) + (IF Len(roster) > 1 THEN 2 ELSE 1)
         + EntriesSize(Tail(roster))

\* A roster: '[]', or '[', the entries, ']' indented by 4.
RosterSize(roster) ==
  IF roster = <<>> THEN 2 ELSE 2 + EntriesSize(roster) + 5

RECURSIVE TeamLinesSize(_, _)
TeamLinesSize(T, S) ==
  IF S = {} THEN 0
  ELSE LET t == CHOOSE x \in S : TRUE
       IN 4 + JsonStr(t) + 2 + RosterSize(T[t])
            + (IF Cardinality(S) > 1 THEN 2 ELSE 1) + TeamLinesSize(T, S \ {t})

\* 'teams': '{}', or '{', one roster per team, '}' indented by 2.
TeamsSize(T) ==
  IF DOMAIN T = {} THEN 2 ELSE 2 + TeamLinesSize(T, DOMAIN T) + 3

RECURSIVE NamesSize(_)
NamesSize(lst) ==
  IF lst = <<>> THEN 0
  ELSE 4 + JsonStr(Head(lst)) + (IF Len(lst) > 1 THEN 2 ELSE 1)
         + NamesSize(Tail(lst))

\* 'drafted_players': '[]', or '[', one name per line, ']' indented by 2.
ListSize(lst) == IF lst = <<>> THEN 2 ELSE 2 + NamesSize(lst) + 3

\* The whole document: the four keys of data, indented by 2.
DocSize(self, lst, stamp) ==
  2 + (22 + stamp) + (15 + JsonStr(self.my_team)) + (23 + ListSize(lst))
    + (12 + TeamsSize(self.teams)) + 1

\* The bytes the file holds.
FileSize(file) ==
  CASE file.kind = "json" ->
         DocSize(file, file.drafted_players, file.last_updated)
    [] file.kind = "garbled" -> file.size
    [] OTHER -> 0

\* json.dump(data): 'last_updated' is a string of stamp characters,
\* 'drafted_players' is written as a list, 'teams' as is.
Dump(self, lst, stamp) ==
  [kind |-> "json", last_updated |-> stamp, my_team |-> self.my_team,
   drafted_players |-> lst, teams |-> self.teams]

\* DraftState.load: the file's content if it parses, else the default state.
load(file) ==
  IF file.kind = "json"
  THEN [teams |-> file.teams, my_team |-> file.my_team,
        drafted_players |-> Range(file.drafted_players)]
  ELSE DefaultState

\* ---- the state file as text -------------------------------------------------
\* What json.dump is given and json.load returns: a str (its characters), an
\* int, a float, None, a list, or a dict (its items in order, each a key and
\* a value).
JStr(cs) == [str |-> cs]
JInt(k) == [int |-> k]
JFloat(x) == [float |-> x]
JNull == [null |-> TRUE]
JList(items) == [list |-> items]
JDict(items) == [dict |-> items]
Item(key, value) == [key |-> Chars(key), value |-> value]

DigitChars == <<"0", "1", "2", "3", "4", "5", "6", "7", "8", "9">>

\* str(n) for n >= 0
RECURSIVE NatText(_)
NatText(n) ==
  IF n < 10 THEN <<DigitChars[n + 1]>>
  ELSE NatText(n \div 10) \o <<DigitChars[(n % 10) + 1]>>

\* int.__repr__
IntText(k) == IF k < 0 THEN <<"-">> \o NatText(-k) ELSE NatText(k)

\* float.__repr__ of a float with at most two decimals: 12.0, 3.1, 0.25
FloatText(x) ==
  LET h == (100 * Abs(x.n)) \div x.d
      f == h % 100
  IN (IF x.n < 0 THEN <<"-">> ELSE <<>>) \o NatText(h \div 100) \o <<".">>
       \o (IF f % 10 = 0 THEN <<DigitChars[(f \div 10) + 1]>>
           ELSE <<DigitChars[(f \div 10) + 1], DigitChars[(f % 10) + 1]>>)

\* The concatenation of a sequence of sequences.
RECURSIVE Flatten(_)
Flatten(xs) == IF xs = <<>> THEN <<>> ELSE Head(xs) \o Flatten(Tail(xs))

\* Mutant of Escaped: the character is written as it is.
Escaped_raw(c) == <<c>>

\* json.encoder, one character of a string: quote, backslash and tab are
\* written with a backslash.
Escaped(c) ==
  CASE c = "\"" -> <<"\\", "\"">>
    [] c = "\\" -> <<"\\", "\\">>
    [] c = "\t" -> <<"\\", "t">>
    [] OTHER -> <<c>>

\* A string between quotes.
StrText(cs) ==
  <<"\"">> \o Flatten([i \in 1..Len(cs) |-> Escaped(cs[i])]) \o <<"\"">>

\* With indent=2: a newline and two blanks per level before every item and
\* before the closing bracket.
Newline(level) == <<"\n">> \o [i \in 1..(2 * level) |-> " "]

\* json.dumps(v, indent=2), for v written at the given level: items are
\* separated by ',', a key from its value by ': ', an empty list is '[]' and
\* an empty dict '{}'.
RECURSIVE json_dumps(_, _)
json_dumps(v, level) ==
  CASE "str" \in DOMAIN v -> StrText(v.str)
    [] "int" \in DOMAIN v -> IntText(v.int)
    [] "float" \in DOMAIN v -> FloatText(v.float)
    [] "null" \in DOMAIN v -> <<"n", "u", "l", "l">>
    [] "list" \in DOMAIN v ->
         IF v.list = <<>> THEN <<"[", "]">>
         ELSE <<"[">>
                \o Flatten([i \in 1..Len(v.list) |->
                              (IF i > 1 THEN <<",">> ELSE <<>>)
                                \o Newline(level + 1)
                                \o json_dumps(v.list[i], level + 1)])
                \o Newline(level) \o <<"]">>
    [] "dict" \in DOMAIN v ->
         IF v.dict = <<>> THEN <<"{", "}">>
         ELSE <<"{">>
                \o Flatten([i \in 1..Len(v.dict) |->
                              (IF i > 1 THEN <<",">> ELSE <<>>)
                                \o Newline(level + 1)
                                \o StrText(v.dict[i].key) \o <<":", " ">>
                                \o json_dumps(v.dict[i].value, level + 1)])
                \o Newline(level) \o <<"}">>

\* json.decoder: what a scan from position i gives: ok, the value, and the
\* position after it.
Parsed(value, next) == [ok |-> TRUE, value |-> value, next |-> next]
ParseError == [ok |-> FALSE, value |-> JNull, next |-> 0]

JsonWhitespace == {" ", "\t", "\n", "\r"}

\* The first position from i on that holds no whitespace.
RECURSIVE SkipWhitespace(_, _)
SkipWhitespace(t, i) ==
  IF i <= Len(t) /\ t[i] \in JsonWhitespace THEN SkipWhitespace(t, i + 1) ELSE i

IsDigit(c) == \E k \in 1..10 : DigitChars[k] = c
DigitValue(c) == (CHOOSE k \in 1..10 : DigitChars[k] = c) - 1

\* The first position from i on that holds no digit.
RECURSIVE SkipDigits(_, _)
SkipDigits(t, i) ==
  IF i <= Len(t) /\ IsDigit(t[i]) THEN SkipDigits(t, i + 1) ELSE i

\* int() of the digits t[i..j-1]
RECURSIVE NatOf(_, _, _)
NatOf(t, i, j) ==
  IF i >= j THEN 0 ELSE 10 * NatOf(t, i, j - 1) + DigitValue(t[j - 1])

RECURSIVE Power10(_)
Power10(k) == IF k = 0 THEN 1 ELSE 10 * Power10(k - 1)

\* A number starts at i: '-'? digits ('.' digits)?; with a fraction it is a
\* float, without one an int.
parse_number(t, i) ==
  LET negative == t[i] = "-"
      first == IF negative THEN i + 1 ELSE i
      after_int == SkipDigits(t, first)
      has_frac == /\ after_int + 1 <= Len(t)
                  /\ t[after_int] = "."
                  /\ IsDigit(t[after_int + 1])
      after_frac == SkipDigits(t, after_int + 1)
      whole == NatOf(t, first, after_int)
      sign == IF negative THEN -1 ELSE 1
  IN IF after_int = first THEN ParseError
     ELSE IF has_frac
     THEN Parsed(JFloat(Frac(sign * (whole * Power10(after_frac - after_int - 1)
                                       + NatOf(t, after_int + 1, after_frac)),
                             Power10(after_frac - after_int - 1))),
                 after_frac)
     ELSE Parsed(JInt(sign * whole), after_int)

\* The character a backslash and c stand for; "" when there is none.
Unescaped(c) ==
  CASE c = "\"" -> "\""
    [] c = "\\" -> "\\"
    [] c = "/" -> "/"
    [] c = "t" -> "\t"
    [] c = "n" -> "\n"
    [] c = "r" -> "\r"
    [] OTHER -> ""

\* The characters of a string from position i on (after the opening quote),
\* up to the closing quote; a control character in it is an error.
RECURSIVE parse_string(_, _, _)
parse_string(t, i, acc) ==
  IF i > Len(t) THEN ParseError
  ELSE IF t[i] = "\"" THEN Parsed(JStr(acc), i + 1)
  ELSE IF t[i] = "\\"
  THEN IF i + 1 > Len(t) \/ Unescaped(t[i + 1]) = "" THEN ParseError
       ELSE parse_string(t, i + 2, Append(acc, Unescaped(t[i + 1])))
  ELSE IF t[i] \in {"\t", "\n", "\r"} THEN ParseError
  ELSE parse_string(t, i + 1, Append(acc, t[i]))

IsLiteral(t, i, word) ==
  i + Len(word) - 1 <= Len(t) /\ SubSeq(t, i, i + Len(word) - 1) = word

\* A value starts at i.  parse_list and parse_dict are called after the
\* opening bracket with the items scanned so far.
RECURSIVE parse_value(_, _), parse_list(_, _, _), parse_dict(_, _, _)
parse_value(t, i) ==
  IF i > Len(t) THEN ParseError
  ELSE IF t[i] = "\"" THEN parse_string(t, i + 1, <<>>)
  ELSE IF t[i] = "{"
  THEN LET j == SkipWhitespace(t, i + 1)
       IN IF j <= Len(t) /\ t[j] = "}" THEN Parsed(JDict(<<>>), j + 1)
          ELSE parse_dict(t, j, <<>>)
  ELSE IF t[i] = "["
  THEN LET j == SkipWhitespace(t, i + 1)
       IN IF j <= Len(t) /\ t[j] = "]" THEN Parsed(JList(<<>>), j + 1)
          ELSE parse_list(t, j, <<>>)
  ELSE IF IsLiteral(t, i, <<"n", "u", "l", "l">>) THEN Parsed(JNull, i + 4)
  ELSE IF t[i] = "-" \/ IsDigit(t[i]) THEN parse_number(t, i)
  ELSE ParseError

parse_list(t, i, acc) ==
  LET item == parse_value(t, i)
      j == SkipWhitespace(t, item.next)
  IN IF ~item.ok \/ j > Len(t) THEN ParseError
     ELSE IF t[j] = "]" THEN Parsed(JList(Append(acc, item.value)), j + 1)
     ELSE IF t[j] = ","
     THEN parse_list(t, SkipWhitespace(t, j + 1), Append(acc, item.value))
     ELSE ParseError

parse_dict(t, i, acc) ==
  LET key == IF i <= Len(t) /\ t[i] = "\"" THEN parse_string(t, i + 1, <<>>)
             ELSE ParseError
      colon == SkipWhitespace(t, key.next)
      item == IF key.ok /\ colon <= Len(t) /\ t[colon] = ":"
              THEN parse_value(t, SkipWhitespace(t, colon + 1))
              ELSE ParseError
      j == SkipWhitespace(t, item.next)
      items == Append(acc, [key |-> key.value.str, value |-> item.value])
  IN IF ~item.ok \/ j > Len(t) THEN ParseError
     ELSE IF t[j] = "}" THEN Parsed(JDict(items), j + 1)
     ELSE IF t[j] = ","
     THEN parse_dict(t, SkipWhitespace(t, j + 1), items)
     ELSE ParseError

\* json.loads: one value, whitespace around it and nothing else ('Extra
\* data' otherwise).
json_loads(t) ==
  LET r == parse_value(t, SkipWhitespace(t, 1))
  IN IF r.ok /\ SkipWhitespace(t, r.next) = Len(t) + 1 THEN r ELSE ParseError

\* One roster entry as add_to_team built it (lines 76-83): adp, fpts and fpg
\* are floats (adp_scraper.py 43-61 stores float(row[...])).
EntryJson(e) ==
  JDict(<<Item("player", JStr(Chars(e.player))),
          Item("position", JStr(Chars(e.position))),
          Item("team", JStr(Chars(e.team))),
          Item("adp", JFloat(Whole(e.adp))),
          Item("fpts", JFloat(Whole(e.fpts))),
          Item("fpg", JFloat(Whole(e.fpg)))>>)

\* datetime.now().isoformat() in either of its lengths.
Stamp(length) ==
  IF length = 19 THEN "2025-08-30T21:15:00" ELSE "2025-08-30T21:15:00.123456"

\* Mutant of Document: 'drafted_players' is not written.
Document_without_claims(file, keys) ==
  JDict(<<Item("last_updated", JStr(Chars(Stamp(file.last_updated)))),
          Item("my_team", JStr(Chars(file.my_team))),
          Item("teams",
               JDict([i \in 1..Len(keys) |->
                        [key |-> Chars(keys[i]),
                         value |-> JList([k \in 1..Len(file.teams[keys[i]]) |->
                                            EntryJson(file.teams[keys[i]][k])])]]))>>)

\* The dict 'data' of save() (lines 43-48) for the content file; keys is the
\* order of the keys of self.teams (a dict keeps the order of insertion).
Document(file, keys) ==
  JDict(<<Item("last_updated", JStr(Chars(Stamp(file.last_updated)))),
          Item("my_team", JStr(Chars(file.my_team))),
          Item("drafted_players",
               JList([i \in 1..Len(file.drafted_players) |->
                        JStr(Chars(file.drafted_players[i]))])),
          Item("teams",
               JDict([i \in 1..Len(keys) |->
                        [key |-> Chars(keys[i]),
                         value |-> JList([k \in 1..Len(file.teams[keys[i]]) |->
                                            EntryJson(file.teams[keys[i]][k])])]]))>>)

\* json.dump(data, f, indent=2): the characters of the file.
FileText(file, keys) == json_dumps(Document(file, keys), 0)

\* dict.get(key, default) on the items of a dict (of two items with one key
\* the decoder keeps the later).
DictGet(items, key, default) ==
  LET hits == {i \in 1..Len(items) : items[i].key = Chars(key)}
  IN IF hits = {} THEN default ELSE items[SetMax(hits)].value

\* The Python value of a decoded value, in the terms of the model: a string,
\* a number by its value (a whole float as its integer: 12.0 == 12), None, a
\* sequence, a function of the keys.
RECURSIVE PyValue(_)
PyValue(v) ==
  CASE "str" \in DOMAIN v -> Str(v.str)
    [] "int" \in DOMAIN v -> v.int
    [] "float" \in DOMAIN v -> IF v.float.d = 1 THEN v.float.n ELSE v.float
    [] "null" \in DOMAIN v -> None
    [] "list" \in DOMAIN v -> [i \in 1..Len(v.list) |-> PyValue(v.list[i])]
    [] "dict" \in DOMAIN v ->
         [k \in {Str(v.dict[i].key) : i \in 1..Len(v.dict)} |->
            PyValue(DictGet(v.dict, k, JNull))]

\* DraftState.load on the file as text (exists: the file is there).  Any
\* exception gives the default state: the text is no JSON document, the
\* document is no dict (no .get), 'teams' is no dict (no .items),
\* 'drafted_players' is nothing set() takes or holds a list or a dict.
load_text(file) ==
  LET r == json_loads(file.text)
      state == r.value
      teams_v == DictGet(state.dict, "teams", JDict(<<>>))
      my_team_v == DictGet(state.dict, "my_team", JStr(Chars("Team 1")))
      drafted_v == DictGet(state.dict, "drafted_players", JList(<<>>))
  IN IF ~file.exists THEN DefaultState
     ELSE IF ~r.ok THEN DefaultState
     ELSE IF "dict" \notin DOMAIN state THEN DefaultState
     ELSE IF "dict" \notin DOMAIN teams_v THEN DefaultState
     ELSE IF "list" \notin DOMAIN drafted_v THEN DefaultState
     ELSE IF \E i \in 1..Len(drafted_v.list) :
               DOMAIN drafted_v.list[i] \cap {"list", "dict"} # {}
     THEN DefaultState
     ELSE [teams |-> PyValue(teams_v), my_team |-> PyValue(my_team_v),
           drafted_players |-> Range(PyValue(drafted_v))]

\* DraftState.save as one call.  io is what the file system does:
\*   "ok"           the file is rewritten in full, save returns True
\*   "open_failed"  mkdir or open raises: file untouched, save returns False
\*   "dump_failed"  open has truncated the file, the write raises: False
SaveIO == {"ok", "open_failed", "dump_failed"}

save(self, file, io, lst, stamp) ==
  IF io = "ok" THEN [file |-> Dump(self, lst, stamp), ret |-> TRUE]
  ELSE IF io = "open_failed" THEN [file |-> file, ret |-> FALSE]
  ELSE [file |-> PartialFile, ret |-> FALSE]

\* ---- DraftState.add_to_team, piece by piece -------------------------------
\* lines 60-61: an unknown team gets an empty roster before any check.
EnsureTeam(T, team_name) ==
  IF team_name \in DOMAIN T THEN T ELSE T @@ (team_name :> <<>>)

\* Mutant of AlreadyDrafted: the global check is missing.
AlreadyDrafted_never(self, player_name) == FALSE

\* line 66: drafted by anyone.
AlreadyDrafted(self, player_name) == player_name \in self.drafted_players

\* line 71: on this team's roster.
OnRoster(roster, player_name) ==
  \E i \in 1..Len(roster) : roster[i].player = player_name

\* Mutant of Rejection: the roster check comes first.
Rejection_roster_first(self, T, player_name, team_name) ==
  IF OnRoster(T[team_name], player_name) THEN "DuplicateOnRoster"
  ELSE IF AlreadyDrafted(self, player_name) THEN "AlreadyClaimed"
  ELSE "ok"

\* lines 66-73: which check rejects the call, if any.
Rejection(self, T, player_name, team_name) ==
  IF AlreadyDrafted(self, player_name) THEN "AlreadyClaimed"
  ELSE IF OnRoster(T[team_name], player_name) THEN "DuplicateOnRoster"
  ELSE "ok"

\* lines 76-83: the roster entry, a new dict of six fields of the player.
player_data(player) ==
  [player |-> player.player, position |-> player.position, team |-> player.team,
   adp |-> player.adp, fpts |-> player.fpts, fpg |-> player.fpg]

\* Mutant of AppendEntry: the entry is put at the head of the roster.
AppendEntry_at_head(roster, entry) == <<entry>> \o roster

\* line 84
AppendEntry(roster, entry) == Append(roster, entry)

\* Mutant of AddDrafted: the name is not recorded.
AddDrafted_forgets(D, player_name) == D

\* lines 85, 100
AddDrafted(D, player_name) == D \cup {player_name}

\* The method on the in-memory object: the new object, the return value, the
\* message printed, and whether save() is called.
add_to_team(self, player, team_name) ==
  LET T == EnsureTeam(self.teams, team_name)
      player_name == player.player
      msg == Rejection(self, T, player_name, team_name)
  IN IF msg # "ok"
     THEN [self |-> [self EXCEPT !.teams = T], ret |-> FALSE, msg |-> msg,
           saves |-> FALSE]
     ELSE [self |-> [self EXCEPT
                       !.teams = [T EXCEPT ![team_name] =
                                    AppendEntry(@, player_data(player))],
                       !.drafted_players = AddDrafted(@, player_name)],
           ret |-> TRUE, msg |-> "ok", saves |-> TRUE]

\* Mutant of mark_drafted: the name replaces the names recorded before.
mark_drafted_replaces(self, player_name) ==
  [self EXCEPT !.drafted_players = {player_name}]

\* DraftState.mark_drafted
mark_drafted(self, player_name) ==
  [self EXCEPT !.drafted_players = AddDrafted(@, player_name)]

\* Mutant of reset: drafted_players is not cleared.
reset_keeps_drafted(self) == [self EXCEPT !.teams = (DefaultTeam :> <<>>)]

\* DraftState.reset
reset(self) ==
  [self EXCEPT !.teams = (DefaultTeam :> <<>>), !.drafted_players = {}]

\* 'init --teams ...' (draft.py 334-336) on the object DraftState() gave:
\* team_list = [t.strip() for t in teams.split(',')], an empty roster for each
\* of its names, no drafted player; my_team stays.
init(self, teams_arg) ==
  LET parts == split_on(Chars(teams_arg), ",")
      team_list == [i \in 1..Len(parts) |-> Str(strip(parts[i]))]
  IN [self EXCEPT !.teams = [t \in Range(team_list) |-> <<>>],
                  !.drafted_players = {}]

\* Mutant of get_team: an unknown team gets the roster of my_team.
get_team_fallback(self, team_name) ==
  IF team_name \in DOMAIN self.teams THEN self.teams[team_name]
  ELSE IF self.my_team \in DOMAIN self.teams THEN self.teams[self.my_team]
  ELSE <<>>

\* DraftState.get_team
get_team(self, team_name) ==
  IF team_name \in DOMAIN self.teams THEN self.teams[team_name] ELSE <<>>

\* ---- Spec: one DraftState object ------------------------------------------
\* The DraftConfig object after load_all_data, as a record.
Config ==
  [rankings |-> rankings, stats |-> data.stats, injuries |-> data.injuries,
   afcon |-> data.afcon, league_config |-> data.league_config,
   recent_form |-> data.recent_form]

\* PlayerRecommendationEngine(config, my_team, drafted_players)
Engine(roster, drafted) ==
  [config |-> Config, my_team |-> roster, drafted_players |-> drafted]

NoBreakdown ==
  [raises |-> "", injury_status |-> "", injury_multiplier |-> 0, base_value |-> 0, club_bonus |-> 0, adp_value |-> 0,
   form_value |-> 0, injury_penalty |-> 0, position_need |-> 0, scarcity |-> 0,
   positional_value |-> 0, total |-> 0]

\* What is remembered of the call of get_recommendations before this one.
NoPrev ==
  [op |-> "none", team |-> "", n |-> 0, form |-> <<>>, stable |-> TRUE,
   first |-> [raises |-> "", out |-> <<>>]]

\* No call of get_recommendations under way.  Of a call under way: the
\* caller and its arguments, the engine's my_team and drafted_players, the
\* list get_all_available_players returned, the scores calculated so far,
\* recent_form.json as it was when the call started, and stable: every read
\* of recent_form.json so far has found it so.
NoRun ==
  [op |-> "none", team |-> "", n |-> 0, exclude_teams |-> "",
   exclude_positions |-> "", my_team |-> <<>>, drafted_players |-> {},
   current_round |-> 0, available |-> <<>>, scores |-> <<>>, form |-> <<>>,
   stable |-> TRUE, prev |-> NoPrev]

\* save_recent_form is not running; runs: the times it has run.
ScraperIdle == [pc |-> "idle", recent_form |-> <<>>, runs |-> 0]

\* No engine call yet on this DraftConfig.  pc: "scoring" while a call of
\* get_recommendations is in its loop.
EngIdle ==
  [op |-> "none", team |-> "", n |-> 0, exclude_teams |-> "",
   exclude_positions |-> "", raises |-> "", out |-> <<>>, player |-> "",
   breakdown |-> NoBreakdown, again |-> FALSE,
   first |-> [raises |-> "", out |-> <<>>], calls |-> 0,
   q |-> "", players |-> <<>>, form |-> <<>>, same_form |-> FALSE,
   stable |-> TRUE, steady |-> FALSE, pc |-> "idle", run |-> NoRun,
   scraper |-> ScraperIdle]

\* No function applied, no entry point started.
NoCall == [op |-> "none"]
NoBoot == [entry |-> "none"]

\* What is remembered of a call: the method, its arguments (entry is
\* player_data of the player record passed), the value returned, the message
\* printed, what save() returned, and out: for get_team the roster returned,
\* for reset the roster of the default team that the call cleared.
\* pre records three facts of the state the call started in: player already in
\* drafted_players, player already on the roster of team, team a key of teams.
Last(op, player, team, ret, msg, saved, entry, out) ==
  [op |-> op, player |-> player, team |-> team, ret |-> ret, msg |-> msg,
   saved |-> saved, entry |-> entry, out |-> out,
   pre |-> [drafted |-> player \in drafted_players,
            on_roster |-> /\ team \in DOMAIN teams
                          /\ OnRoster(teams[team], player),
            known |-> team \in DOMAIN teams]]

InitProc ==
  /\ pc = [p \in Procs |-> "idle"]
  /\ cmd = [p \in Procs |-> [op |-> "none", player |-> "", team |-> ""]]
  /\ proc = [p \in Procs |-> DefaultState]
  /\ resp = [p \in Procs |-> "none"]
  /\ acked = {}
  /\ completed = {}
  /\ observed = [p \in Procs |-> "none"]
  /\ started = 0

\* DraftState() on a first run: no file, load() takes the else branch.
InitLedger ==
  /\ teams = DefaultState.teams
  /\ my_team = DefaultState.my_team
  /\ drafted_players = DefaultState.drafted_players
  /\ state_file = MissingFile
  /\ rankings = RankingsTable(1)
  /\ external = {}
  /\ last = [op |-> "init", player |-> "", team |-> "", ret |-> FALSE, msg |-> "",
             saved |-> FALSE, entry |-> NoRecord, out |-> <<>>,
             pre |-> [drafted |-> FALSE, on_roster |-> FALSE, known |-> FALSE]]
  /\ InitProc

InitObjects ==
  /\ InitLedger
  /\ eng = EngIdle
  /\ call = NoCall
  /\ boot = NoBoot

\* A data directory with the two required files only.
Init == InitObjects /\ data = BareData

\* Any of the data directories.
InitEngine == InitObjects /\ data \in DataDirs

SetSelf(s) ==
  /\ teams' = s.teams
  /\ my_team' = s.my_team
  /\ drafted_players' = s.drafted_players

\* state.add_to_team(player, team_name) with player a record of the rankings.
AddToTeamCall(name, team_name, io, lst, stamp) ==
  \E r \in {add_to_team(Self, rankings[name], team_name)} :
  \E s \in {save(r.self, state_file, io, lst, stamp)} :
     /\ SetSelf(r.self)
     /\ state_file' = IF r.saves THEN s.file ELSE state_file
     /\ last' = Last("add_to_team", name, team_name, r.ret, r.msg,
                     r.saves /\ s.ret, player_data(rankings[name]), <<>>)
     /\ UNCHANGED <<rankings, external>>
     /\ UNCHANGED procVars

AddToTeam(name, team_name, io, lst, stamp) ==
  /\ AddToTeamCall(name, team_name, io, lst, stamp)
  /\ UNCHANGED engVars

\* state.mark_drafted(player_name)
MarkDraftedCall(name, io, lst, stamp) ==
  \E n \in {mark_drafted(Self, name)} :
  \E s \in {save(n, state_file, io, lst, stamp)} :
     /\ SetSelf(n)
     /\ state_file' = s.file
     /\ external' = IF name \in drafted_players THEN external
                    ELSE external \cup {name}
     /\ last' = Last("mark_drafted", name, "", TRUE, "ok", s.ret, NoRecord, <<>>)
     /\ UNCHANGED rankings
     /\ UNCHANGED procVars

MarkDrafted(name, io, lst, stamp) ==
  /\ MarkDraftedCall(name, io, lst, stamp)
  /\ UNCHANGED engVars

\* state.reset()
ResetCall(io, lst, stamp) ==
  \E n \in {reset(Self)} :
  \E s \in {save(n, state_file, io, lst, stamp)} :
     /\ SetSelf(n)
     /\ state_file' = s.file
     /\ external' = {}
     /\ last' = Last("reset", "", "", TRUE, "ok", s.ret, NoRecord,
                     get_team(Self, DefaultTeam))
     /\ UNCHANGED rankings
     /\ UNCHANGED procVars

Reset(io, lst, stamp) ==
  /\ ResetCall(io, lst, stamp)
  /\ UNCHANGED engVars

\* The values of --teams: the default (one team, not the one my_team names)
\* and a list of two.
InitArgs == {"My Team", "Team 1, Team 2"}

\* 'init --teams teams_arg' (draft.py 324-342): state = DraftState(), the
\* teams and drafted_players are replaced, state.save().
InitTeamsCall(teams_arg, io, stamp) ==
  \E n \in {init(load(state_file), teams_arg)} :
  \E s \in {save(n, state_file, io, <<>>, stamp)} :
     /\ SetSelf(n)
     /\ state_file' = s.file
     /\ external' = {}
     /\ last' = Last("init_teams", "", teams_arg, TRUE, "ok", s.ret, NoRecord, <<>>)
     /\ UNCHANGED rankings
     /\ UNCHANGED procVars

InitTeams(teams_arg, io, stamp) ==
  /\ InitTeamsCall(teams_arg, io, stamp)
  /\ UNCHANGED engVars

\* state.get_team(team_name)
GetTeam(team_name) ==
  /\ last' = Last("get_team", "", team_name, TRUE, "ok", FALSE, NoRecord,
                  get_team(Self, team_name))
  /\ UNCHANGED <<teams, my_team, drafted_players, state_file, rankings, external>>
  /\ UNCHANGED procVars
  /\ UNCHANGED engVars

\* config.load_all_data() after a scraper run: the next version of the rankings.
RefreshRankings(v) ==
  /\ v > 1
  /\ rankings = RankingsTable(v - 1)
  /\ rankings' = RankingsTable(v)
  /\ last' = Last("refresh", "", "", TRUE, "ok", FALSE, NoRecord, <<>>)
  /\ UNCHANGED <<teams, my_team, drafted_players, state_file, external>>
  /\ UNCHANGED procVars
  /\ UNCHANGED engVars

\* The orders list(S) may come out in: every order.
Orders(S) == ListsOf(S)

\* The timestamps a save() may write: of either length when the document is
\* written, none when mkdir, open or the write raises.
Stamps(io) == IF io = "ok" THEN StampLens ELSE {0}

\* The calls on the object.  IO is what the file system may do to a save(),
\* Args the values of --teams that 'init' is run with.
Calls(IO, Args) ==
  \/ \E name \in PlayerNames, team_name \in TeamNames, io \in IO :
       \E lst \in Orders(AddDrafted(drafted_players, name)), stamp \in Stamps(io) :
         AddToTeam(name, team_name, io, lst, stamp)
  \/ \E name \in PlayerNames, io \in IO :
       \E lst \in Orders(AddDrafted(drafted_players, name)), stamp \in Stamps(io) :
         MarkDrafted(name, io, lst, stamp)
  \/ \E io \in IO : \E stamp \in Stamps(io) : Reset(io, <<>>, stamp)
  \/ \E teams_arg \in Args, io \in IO :
       \E stamp \in Stamps(io) : InitTeams(teams_arg, io, stamp)
  \/ \E team_name \in TeamNames : GetTeam(team_name)

\* A file system that never fails; the rankings are reloaded between calls.
Next ==
  \/ Calls({"ok"}, InitArgs)
  \/ \E v \in Versions : RefreshRankings(v)

Spec == Init /\ [][Next]_vars

\* A file system on which mkdir, open or write may raise, and one version of
\* the rankings.
NextIO == Calls(SaveIO, InitArgs)

SpecIO == Init /\ [][NextIO]_vars

\* ---- SpecJson: the state file as the characters json.dump writes ----------
\* Names typed at 'drafted' and teams typed at 'init --teams' that json.dump
\* has to escape.
JsonNames == {"son\t"}
JsonInitArgs == {"Team 1, \"A\" Team"}

\* The state file as text: exists (the file is there), text (its
\* characters), intact (the text is what the last save() wrote), object (the
\* object that save() wrote), op and loaded (after DraftState(), op is
\* "load" and loaded what load() made of the text).
NoText ==
  [op |-> "none", exists |-> FALSE, text |-> <<>>, intact |-> FALSE,
   object |-> DefaultState, loaded |-> DefaultState]

InitJson ==
  /\ InitLedger
  /\ eng = EngIdle
  /\ boot = NoBoot
  /\ data = BareData
  /\ call = NoText

\* The teams players are claimed for.
JsonTeams == {DefaultTeam, "\"A\" Team"}

\* The keys of teams in the order the dict holds them, the order in which
\* they were added: the default team is there from the start and after
\* reset(), 'init' names it first, and json.load keeps the order of the file.
KeyOrder(T) ==
  SelectSeq(<<DefaultTeam, "\"A\" Team">>, LAMBDA t : t \in DOMAIN T)

\* The text after a call on the object: when the call reached save(), what
\* json.dump has written (lines 50-51) into the file that open('w') had
\* emptied; else the text as it was.
TextAfterCall ==
  /\ IF last'.saved
     THEN \E keys \in {KeyOrder(teams')} :
            call' = [op |-> "dump", exists |-> TRUE,
                     text |-> FileText(state_file', keys), intact |-> TRUE,
                     object |-> Self', loaded |-> DefaultState]
     ELSE call' = [call EXCEPT !.op = IF call.exists THEN "dump" ELSE "none",
                               !.loaded = DefaultState]
  /\ UNCHANGED <<data, eng, boot>>

\* Something else than save() changes the file: text is what it holds then,
\* file the same as a file record.
TextStep(c, file) ==
  /\ call' = c
  /\ state_file' = file
  /\ UNCHANGED <<teams, my_team, drafted_players, rankings, last, external, data,
                 eng, boot>>
  /\ UNCHANGED procVars

\* The file is cut after k characters: the process died, or the disk was
\* full, during json.dump (k = 0: right after open('w')).
CutText(k) ==
  /\ call.exists
  /\ call.intact
  /\ k < Len(call.text)
  /\ TextStep([call EXCEPT !.op = "dump", !.text = SubSeq(call.text, 1, k),
                           !.intact = FALSE, !.loaded = DefaultState],
              PartialFile)

\* The document is followed by the last k characters of a longer one that
\* was written under it.
AppendTail(k) ==
  /\ call.exists
  /\ call.intact
  /\ k <= Len(call.text)
  /\ TextStep([call EXCEPT
                 !.op = "dump",
                 !.text = @ \o SubSeq(@, Len(@) - k + 1, Len(@)),
                 !.intact = FALSE, !.loaded = DefaultState],
              GarbledFile(Len(call.text) + k))

\* The file is deleted.
RemoveText ==
  /\ call.exists
  /\ TextStep([call EXCEPT !.op = "none", !.exists = FALSE, !.text = <<>>,
                           !.intact = FALSE, !.loaded = DefaultState],
              MissingFile)

\* DraftState(): load() on the text.
LoadText ==
  TextStep([call EXCEPT !.op = "load", !.loaded = load_text(call)], state_file)

\* Where the file is cut, and how much of an older document is left.
CutPoints(text) == {0, Len(text) \div 2, Len(text) - 1}
TailLengths == {7}

\* Calls on the object, each with its save() and the text it leaves in the
\* file; what else may happen to the file; DraftState() on it.
NextJson ==
  \/ \E name \in PlayerNames, team_name \in JsonTeams :
       \E lst \in Orders(AddDrafted(drafted_players, name)), stamp \in StampLens :
         AddToTeamCall(name, team_name, "ok", lst, stamp) /\ TextAfterCall
  \/ \E name \in JsonNames :
       \E lst \in Orders(AddDrafted(drafted_players, name)), stamp \in StampLens :
         MarkDraftedCall(name, "ok", lst, stamp) /\ TextAfterCall
  \/ \E stamp \in StampLens : ResetCall("ok", <<>>, stamp) /\ TextAfterCall
  \/ \E teams_arg \in JsonInitArgs, stamp \in StampLens :
       InitTeamsCall(teams_arg, "ok", stamp) /\ TextAfterCall
  \/ \E k \in CutPoints(call.text) : CutText(k)
  \/ \E k \in TailLengths : AppendTail(k)
  \/ RemoveText
  \/ LoadText

SpecJson == InitJson /\ [][NextJson]_vars

\* ---- commands, one operating-system process each --------------------------
\* draft_player         POST /teams/{team}/draft (web); 'pick' (CLI) makes the
\*                      same calls: DraftState(), add_to_team
\* drafted              'drafted' (CLI): DraftState(), mark_drafted
\* mark_player_drafted  POST /draft/mark_drafted (web)
\* reset                'reset' (CLI): DraftState(), reset
\* init                 'init' (CLI): DraftState(), new teams, save; team is
\*                      the value of --teams
\* read_root            GET / (web): json.load of the state file
\* player is the name as typed; the handlers look it up with get_player_adp.
Command(op, player, team) == [op |-> op, player |-> player, team |-> team]

\* Typed names: TypedList[i] is a name get_player_adp resolves to player i
\* ("Robertson" itself resolves to Son, who is ranked first and whose name it
\* contains).
TypedList == <<"Son", "Robert", "Saka", "Salah">>
TypedNames == {TypedList[i] : i \in 1..NumPlayers}

\* Typed names no record of the rankings matches.
UnknownNames == {"Kane"}

NameCommands(Names) ==
  {Command("draft_player", n, t) : n \in Names, t \in TeamNames}
    \cup {Command("drafted", n, "") : n \in Names}
    \cup {Command("mark_player_drafted", n, "") : n \in Names}

WriteCommands == NameCommands(TypedNames)

UnknownCommands == NameCommands(UnknownNames)

ReadCommands == {Command("read_root", "", "")}

ResetCommands == {Command("reset", "", "")}

InitCommands == {Command("init", "", a) : a \in InitArgs}

\* The commands that empty drafted_players.
ClearOps == {"reset", "init"}

MarkOps == {"drafted", "mark_player_drafted"}

\* A command is started, while the bound on commands allows.
Start(p, c) ==
  /\ pc[p] = "idle"
  /\ started < MaxCommands
  /\ started' = started + 1
  /\ pc' = [pc EXCEPT ![p] = "start"]
  /\ cmd' = [cmd EXCEPT ![p] = c]
  /\ resp' = [resp EXCEPT ![p] = "none"]
  /\ observed' = [observed EXCEPT ![p] = "none"]
  /\ UNCHANGED <<proc, acked, completed, state_file>>
  /\ UNCHANGED objVars
  /\ UNCHANGED engVars

\* state = DraftState(): __init__ calls load().
Construct(p) ==
  /\ pc[p] = "start"
  /\ cmd[p].op # "read_root"
  /\ proc' = [proc EXCEPT ![p] = load(state_file)]
  /\ observed' = [observed EXCEPT ![p] = state_file.kind]
  /\ pc' = [pc EXCEPT ![p] = "loaded"]
  /\ UNCHANGED <<cmd, resp, acked, completed, started, state_file>>
  /\ UNCHANGED objVars
  /\ UNCHANGED engVars

\* read_root: open("data/draft_state.json") and json.load, with no fallback:
\* a missing file or an incomplete document raises.
ReadRoot(p) ==
  /\ pc[p] = "start"
  /\ cmd[p].op = "read_root"
  /\ observed' = [observed EXCEPT ![p] = state_file.kind]
  /\ resp' = [resp EXCEPT ![p] = IF state_file.kind = "json" THEN "success"
                                 ELSE "exception"]
  /\ pc' = [pc EXCEPT ![p] = "idle"]
  /\ UNCHANGED <<cmd, proc, acked, completed, started, state_file>>
  /\ UNCHANGED objVars
  /\ UNCHANGED engVars

\* The handler's call on its DraftState, up to the call of save(): the new
\* object, the answer the handler will give, and whether save() is reached.
\* The answers: "success", "error" (the 'is already drafted' answer) and
\* "not_found" (the 'Player ... not found' answer).
HandlerCall(c, self) ==
  LET player_details == get_player_adp(rankings, c.player)
      exact_name == player_details.player
  IN IF c.op = "reset"
     THEN [self |-> reset(self), resp |-> "success", saves |-> TRUE]
     ELSE IF c.op = "init"
     THEN [self |-> init(self, c.team), resp |-> "success", saves |-> TRUE]
     ELSE IF player_details = NoRecord
     THEN [self |-> self, resp |-> "not_found", saves |-> FALSE]
     ELSE IF c.op = "draft_player"
     THEN LET r == add_to_team(self, player_details, c.team)
          IN [self |-> r.self, resp |-> IF r.ret THEN "success" ELSE "error",
              saves |-> r.saves]
     ELSE IF c.op = "drafted"
     THEN [self |-> mark_drafted(self, exact_name), resp |-> "success",
           saves |-> TRUE]
     ELSE IF exact_name \in self.drafted_players
     THEN [self |-> self, resp |-> "error", saves |-> FALSE]
     ELSE [self |-> mark_drafted(self, exact_name), resp |-> "success",
           saves |-> TRUE]

Call(p) ==
  /\ pc[p] = "loaded"
  /\ LET h == HandlerCall(cmd[p], proc[p])
     IN /\ proc' = [proc EXCEPT ![p] = h.self]
        /\ resp' = [resp EXCEPT ![p] = h.resp]
        /\ pc' = [pc EXCEPT ![p] = IF h.saves THEN "save" ELSE "respond"]
  /\ UNCHANGED <<cmd, acked, completed, observed, started, state_file>>
  /\ UNCHANGED objVars
  /\ UNCHANGED engVars

\* save(), first half: state_file.open('w') truncates the file.
SaveOpen(p) ==
  /\ pc[p] = "save"
  /\ state_file' = PartialFile
  /\ pc' = [pc EXCEPT ![p] = "dump"]
  /\ completed' = IF cmd[p].op \in ClearOps THEN {} ELSE completed
  /\ acked' = IF cmd[p].op \in ClearOps THEN {} ELSE acked
  /\ UNCHANGED <<cmd, proc, resp, observed, started>>
  /\ UNCHANGED objVars
  /\ UNCHANGED engVars

\* save(), second half: json.dump and the close of the file write the
\* document from the start of the file, whatever the file holds by now.  What
\* another process has written since this one's open() stays where this
\* document does not reach.
Overwritten(file, self, lst, stamp) ==
  IF FileSize(file) > DocSize(self, lst, stamp) THEN GarbledFile(FileSize(file))
  ELSE Dump(self, lst, stamp)

SaveDump(p, lst, stamp) ==
  /\ pc[p] = "dump"
  /\ state_file' = Overwritten(state_file, proc[p], lst, stamp)
  /\ pc' = [pc EXCEPT ![p] = "respond"]
  /\ UNCHANGED <<cmd, proc, resp, acked, completed, observed, started>>
  /\ UNCHANGED objVars
  /\ UNCHANGED engVars

\* exact_name = player_details['player'], the name the handler acts on.
ExactName(c) == get_player_adp(rankings, c.player).player

\* The handler returns its answer; the command has run to its end.
Respond(p) ==
  /\ pc[p] = "respond"
  /\ pc' = [pc EXCEPT ![p] = "idle"]
  /\ acked' = IF cmd[p].op = "draft_player" /\ resp[p] = "success"
              THEN acked \cup {[player |-> ExactName(cmd[p]), team |-> cmd[p].team]}
              ELSE acked
  /\ completed' = IF cmd[p].op \notin ClearOps /\ resp[p] = "success"
                  THEN completed \cup {[player |-> ExactName(cmd[p]),
                                        team |-> cmd[p].team]}
                  ELSE completed
  /\ UNCHANGED <<cmd, proc, resp, observed, started, state_file>>
  /\ UNCHANGED objVars
  /\ UNCHANGED engVars

\* The process dies (killed, power loss) wherever it is in its command.
Crash(p) ==
  /\ pc[p] # "idle"
  /\ pc' = [pc EXCEPT ![p] = "idle"]
  /\ resp' = [resp EXCEPT ![p] = "crashed"]
  /\ UNCHANGED <<cmd, proc, acked, completed, observed, started, state_file>>
  /\ UNCHANGED objVars
  /\ UNCHANGED engVars

\* The steps of a command after its start.
Steps(p) ==
  \/ Construct(p)
  \/ ReadRoot(p)
  \/ Call(p)
  \/ SaveOpen(p)
  \/ \E lst \in ListsOf(proc[p].drafted_players), stamp \in StampLens :
       SaveDump(p, lst, stamp)
  \/ Respond(p)

\* Processes side by side: CLI invocations and web workers on one data
\* directory.  Nothing orders their file system calls.
NextProc ==
  \E p \in Procs :
    \/ \E c \in WriteCommands \cup ReadCommands : Start(p, c)
    \/ Steps(p)

SpecProc == Init /\ [][NextProc]_vars

\* One process at a time (the single writer the design assumes), any command,
\* and the process may die at any step.
NextSolo ==
  \E p \in Procs :
    \/ /\ \A q \in Procs : pc[q] = "idle"
       /\ \E c \in WriteCommands \cup ReadCommands \cup ResetCommands
                     \cup InitCommands : Start(p, c)
    \/ Steps(p)
    \/ Crash(p)

SpecSolo == Init /\ [][NextSolo]_vars

\* One command after the other, none dying, typed names of every kind.
NextCmd ==
  \E p \in {1} :
    \/ \E c \in WriteCommands \cup UnknownCommands \cup ReadCommands
                  \cup ResetCommands \cup InitCommands : Start(p, c)
    \/ Steps(p)

SpecCmd == Init /\ [][NextCmd]_vars

\* ---- SpecEngine: the engine on a DraftState and a DraftConfig --------------
\* n as passed to get_recommendations: the web passes 100, the CLI the number
\* typed (any integer).
NValues == {-1, 0, 1, 100}

\* Names drafted_players may hold besides the names of the current rankings:
\* the same player as an earlier rankings file spelled it.
VariantNames == {"Son Heung-Min"}

\* The round the callers pass: the CLI passes 1.
CurrentRound == 1

\* engine.get_score_breakdown(rec, 1) for rec the i-th record of the list
\* get_recommendations has returned ('suggest --breakdown', draft.py 119).
\* eng.same_form: recent_form.json is as get_recommendations found it at
\* every read.
GetScoreBreakdown(i) ==
  /\ eng.pc = "idle"
  /\ eng.calls < MaxCalls
  /\ eng.op = "get_recommendations"
  /\ i \in 1..Len(eng.out)
  /\ LET engine == Engine(get_team(Self, eng.team), drafted_players)
         rec == rankings[eng.out[i].player]
     IN \E breakdown \in get_score_breakdown(engine, rec, CurrentRound) :
          eng' = [eng EXCEPT !.op = "get_score_breakdown", !.player = rec.player,
                             !.breakdown = breakdown,
                             !.same_form = /\ eng.stable
                                           /\ eng.form = data.recent_form,
                             !.calls = eng.calls + 1]
  /\ UNCHANGED <<teams, my_team, drafted_players, state_file, rankings, last,
                 external, data, call, boot>>
  /\ UNCHANGED procVars

\* web/main.py 208-216: set(t.strip().upper() for t in arg.split(',') if t.strip())
ExcludedSet(arg) ==
  IF arg = "" THEN {}
  ELSE LET parts == split_on(Chars(arg), ",")
       IN {upper(strip(parts[i])) : i \in {j \in 1..Len(parts) : strip(parts[j]) # <<>>}}

\* web/main.py 218-221: the test a suggestion has to pass.
PassesFilter(p, excluded_teams, excluded_positions) ==
  /\ upper(Chars(p.team)) \notin excluded_teams
  /\ upper(<<Chars(p.position)[1]>>) \notin excluded_positions

\* paginate(data, page, page_size)['players']
paginate(items, page, page_size) ==
  LET start == (page - 1) * page_size
      end == start + page_size
  IN SubSeq(items, start + 1, IF end < Len(items) THEN end ELSE Len(items))

\* web/main.py 200-206: player['injury_severity'], player['at_afcon'] are set
\* on every record get_recommendations returned.
Annotated(R, names) ==
  [p \in DOMAIN R |->
     IF \E i \in 1..Len(names) : names[i] = p
     THEN ("injury_severity" :> get_player_injury(Config, p).severity)
            @@ ("at_afcon" :> get_player_afcon_status(Config, p)) @@ R[p]
     ELSE R[p]]

\* web/main.py 200-239, given what get_recommendations returned.
filter_and_page(r, exclude_teams, exclude_positions) ==
  LET R == Annotated(r.rankings, r.out)
      excluded_teams == ExcludedSet(exclude_teams)
      excluded_positions == ExcludedSet(exclude_positions)
      keep == SelectSeq(r.out,
                LAMBDA p : PassesFilter(R[p], excluded_teams, excluded_positions))
      page == paginate(keep, 1, 10)
  IN IF r.raises # ""
     THEN [raises |-> r.raises, out |-> <<>>, rankings |-> r.rankings]
     ELSE IF r.out = <<>>
     THEN [raises |-> "UnboundLocalError", out |-> <<>>, rankings |-> r.rankings]
     ELSE [raises |-> "", out |-> [i \in 1..Len(page) |-> R[page[i]]],
           rankings |-> R]

\* ---- a call of get_recommendations, one step for each read of
\* recent_form.json.  calculate_form_value (suggest.py 70) loads the file
\* again for every player scored, and save_recent_form, in a process of its
\* own, may rewrite it between two reads.
\* The call starts: what is remembered of the call before it.
NewRun(op, team, n, exclude_teams, exclude_positions, roster, drafted, round) ==
  [NoRun EXCEPT !.op = op, !.team = team, !.n = n,
                !.exclude_teams = exclude_teams,
                !.exclude_positions = exclude_positions,
                !.my_team = roster, !.drafted_players = drafted,
                !.current_round = round, !.form = data.recent_form,
                !.prev = [op |-> eng.op, team |-> eng.team, n |-> eng.n,
                          form |-> eng.form, stable |-> eng.stable,
                          first |-> eng.first]]

\* The engine object between two calls: the scraper goes on as it was.
EngBase == [EngIdle EXCEPT !.calls = eng.calls, !.scraper = eng.scraper]

\* The call is over, r is what it gives.  eng.again: the call repeats the
\* call before it, with the team and n of that call, and recent_form.json
\* was, when it started, as it was when that call started; eng.first is then
\* what the first of the two returned.  eng.steady: besides, every read of
\* recent_form.json in the two calls found the file as it was at the start.
Return(run, r) ==
  LET result == [raises |-> r.raises, out |-> r.out]
      again == /\ run.op = "get_recommendations"
               /\ run.prev.op = "get_recommendations"
               /\ run.prev.team = run.team
               /\ run.prev.n = run.n
               /\ run.prev.form = run.form
  IN /\ rankings' = r.rankings
     /\ eng' = [EngBase EXCEPT !.op = run.op, !.team = run.team, !.n = run.n,
                               !.exclude_teams = run.exclude_teams,
                               !.exclude_positions = run.exclude_positions,
                               !.raises = result.raises, !.out = result.out,
                               !.again = again,
                               !.first = IF again THEN run.prev.first ELSE result,
                               !.calls = eng.calls + 1,
                               !.form = run.form, !.stable = run.stable,
                               !.steady = /\ again
                                          /\ run.stable
                                          /\ run.prev.stable]

\* What the caller makes of r, the result of get_recommendations: read_team
\* annotates, filters and pages the records; a direct caller has the records.
Finish(run, r) ==
  IF run.op = "read_team"
  THEN filter_and_page(r, run.exclude_teams, run.exclude_positions)
  ELSE [raises |-> r.raises,
        out |-> [i \in 1..Len(r.out) |-> r.rankings[r.out[i]]],
        rankings |-> r.rankings]

\* suggest.py 381-388: one turn of the loop, on the rankings R: the next
\* available player is scored with recent_form.json as it is now and the
\* score is written to his record; after the last player, or when
\* calculate_total_score raises, the call ends.
Advance(run, R) ==
  LET engine == [config |-> [Config EXCEPT !.rankings = R],
                 my_team |-> run.my_team,
                 drafted_players |-> run.drafted_players]
      name == run.available[Len(run.scores) + 1]
  IN \E score \in calculate_total_score(engine, R[name], run.current_round) :
       \E next \in {[run EXCEPT !.scores = Append(run.scores, score),
                                !.stable = @ /\ data.recent_form = run.form]} :
         IF score.raises = "" /\ Len(next.scores) < Len(run.available)
         THEN /\ rankings' = Scored(R, <<name>>, <<score>>)
              /\ eng' = [EngBase EXCEPT !.pc = "scoring", !.run = next]
         ELSE Return(next,
                     Finish(next, sort_and_slice([rankings |-> R,
                                                  available |-> run.available],
                                                 next.scores, run.n)))

\* get_recommendations from its first statement to the first score.  With no
\* rankings loaded get_all_available_players raises at self.rankings.get
\* (config.py 148); with no player available the loop has no turn.
StartCall(run) ==
  IF rankings = None
  THEN Return(run, Finish(run, [raises |-> "AttributeError", out |-> <<>>,
                                rankings |-> None]))
  ELSE \E a \in {get_all_available_players(Config, run.drafted_players)} :
         IF a.available = <<>>
         THEN Return(run, Finish(run, sort_and_slice(a, <<>>, run.n)))
         ELSE Advance([run EXCEPT !.available = a.available], a.rankings)

\* The next turn of the loop of the call under way.
ScoreNext ==
  /\ eng.pc = "scoring"
  /\ Advance(eng.run, rankings)
  /\ UNCHANGED <<teams, my_team, drafted_players, state_file, last, external, data, call, boot>>
  /\ UNCHANGED procVars

\* engine = PlayerRecommendationEngine(config, state.get_team(team_name),
\* state.drafted_players); engine.get_recommendations(1, n)
GetRecommendations(team_name, n) ==
  /\ eng.pc = "idle"
  /\ eng.calls < MaxCalls
  /\ StartCall(NewRun("get_recommendations", team_name, n, "", "",
                 get_team(Self, team_name), drafted_players, CurrentRound))
  /\ UNCHANGED <<teams, my_team, drafted_players, state_file, last, external, data, call, boot>>
  /\ UNCHANGED procVars

\* GET /teams/{team_id} (read_team, web/main.py 157-239): json.load of the
\* state file (no fallback), the team looked up, then
\* engine.get_recommendations(current_round, n=100) on the team's roster.
StartReadTeam(team_id, exclude_teams, exclude_positions) ==
  LET draft_state == load(state_file)
      num_teams == Cardinality(DOMAIN draft_state.teams)
      current_round == (Cardinality(draft_state.drafted_players) \div num_teams) + 1
      halted == NewRun("read_team", team_id, 100, exclude_teams,
                       exclude_positions, <<>>, {}, 0)
  IN IF state_file.kind # "json"
     THEN Return(halted, [raises |-> "OSError or JSONDecodeError", out |-> <<>>,
                          rankings |-> rankings])
     ELSE IF team_id \notin DOMAIN draft_state.teams
     THEN Return(halted, [raises |-> "HTTPException", out |-> <<>>,
                          rankings |-> rankings])
     ELSE StartCall(NewRun("read_team", team_id, 100, exclude_teams,
                      exclude_positions, draft_state.teams[team_id],
                      draft_state.drafted_players, current_round))

ReadTeam(team_id, exclude_teams, exclude_positions) ==
  /\ eng.pc = "idle"
  /\ eng.calls < MaxCalls
  /\ StartReadTeam(team_id, exclude_teams, exclude_positions)
  /\ UNCHANGED <<teams, my_team, drafted_players, state_file, last, external, data, call, boot>>
  /\ UNCHANGED procVars

\* 'suggest' (CLI): engine.get_recommendations(1, num_suggestions,
\* exclude_team=..., ignore_position=...) passes two keyword arguments the
\* method does not have; the call raises TypeError before its body runs.
Suggest(team, num_suggestions, exclude_team, ignore_position) ==
  /\ eng.pc = "idle"
  /\ eng.calls < MaxCalls
  /\ eng' = [EngBase EXCEPT !.op = "suggest", !.team = team, !.n = num_suggestions,
                            !.exclude_teams = exclude_team,
                            !.exclude_positions = ignore_position,
                            !.raises = "TypeError",
                            !.first = [raises |-> "TypeError", out |-> <<>>],
                            !.calls = eng.calls + 1]
  /\ UNCHANGED <<teams, my_team, drafted_players, state_file, rankings, last,
                 external, data, call, boot>>
  /\ UNCHANGED procVars

\* exclude_teams and exclude_positions as passed: neither, or one of them.
ExcludeArgs == {<<"", "">>, <<"liv", "">>, <<"", "f">>}

\* The teams no claim of the engine's preamble creates.
UnknownTeams == TeamNames \ {DefaultTeam}

\* GET /api/players/autocomplete?q=... (web/main.py 35-52): nothing is read
\* for a q of less than two characters; else json.load of the state file (no
\* fallback), config.get_all_available_players on its drafted_players, which
\* enriches the records of the rankings in place, and the first ten names
\* that contain q, both in lower case.
autocomplete_players(file, q) ==
  LET a == get_all_available_players(Config, Range(file.drafted_players))
      matches == SelectSeq(a.available,
                   LAMBDA name : contains(lower(Chars(rankings[name].player)),
                                          lower(Chars(q))))
  IN IF Len(Chars(q)) < 2
     THEN [raises |-> "", players |-> <<>>, rankings |-> rankings]
     ELSE IF file.kind # "json"
     THEN [raises |-> "OSError or JSONDecodeError", players |-> <<>>,
           rankings |-> rankings]
     ELSE IF rankings = None
     THEN [raises |-> "AttributeError", players |-> <<>>, rankings |-> rankings]
     ELSE [raises |-> "", players |-> slice_to(matches, 10),
           rankings |-> a.rankings]

\* What is typed into the search box: one character, and two characters that
\* the names of two players contain, in either case.
Queries == {"s", "so", "SO"}

\* The same, typed in one case only.
EngineQueries == {"s", "SO"}

AutocompletePlayers(q) ==
  /\ eng.pc = "idle"
  /\ eng.calls < MaxCalls
  /\ \E r \in {autocomplete_players(state_file, q)} :
       /\ rankings' = r.rankings
       /\ eng' = [EngBase EXCEPT !.op = "autocomplete_players", !.q = q,
                                 !.raises = r.raises, !.players = r.players,
                                 !.calls = eng.calls + 1]
  /\ UNCHANGED <<teams, my_team, drafted_players, state_file, last, external, data, call, boot>>
  /\ UNCHANGED procVars

\* A Fantrax CSV export of recent form, as csv.DictReader gives its rows: the
\* columns Player and FP/G (the other columns are written to recent_form.json
\* and never read).  NoCsv: the file is not there.
NoCsv == [exists |-> FALSE, rows |-> <<>>]
Csv(rows) == [exists |-> TRUE, rows |-> rows]
CsvFiles == {NoCsv, Csv(<<[Player |-> "Son", FPG |-> 4]>>)}

\* load_recent_form_csv (recent_form_scraper.py 9-60)['recent_form']: one
\* entry per row, the player's name stripped, FP/G as a float; None when the
\* file is missing (loaded is then FALSE).
load_recent_form_csv(csv_file) ==
  IF ~csv_file.exists THEN [loaded |-> FALSE, recent_form |-> <<>>]
  ELSE [loaded |-> TRUE,
        recent_form |->
          [i \in 1..Len(csv_file.rows) |->
             [player |-> Str(strip(Chars(csv_file.rows[i].Player))),
              recent_fpg |-> Whole(csv_file.rows[i].FPG)]]]

\* save_recent_form (recent_form_scraper.py 63-78; the command 'form' of
\* scrapers/cli.py), a process of its own.  When the CSV loads,
\* open(output_path, 'w') (line 73) leaves recent_form.json empty, and
\* json.dump (line 74) and the end of the with block write the new content.
\* Until then _load_json (config.py 50-63) fails to parse what is there and
\* returns None, as for a missing file.
SaveRecentFormOpen(csv_file) ==
  /\ eng.scraper.pc = "idle"
  /\ eng.scraper.runs < MaxScrapes
  /\ \E loaded \in {load_recent_form_csv(csv_file)} :
       IF loaded.loaded
       THEN /\ data' = [data EXCEPT !.recent_form = <<>>]
            /\ eng' = [eng EXCEPT !.scraper.pc = "dump",
                                  !.scraper.recent_form = loaded.recent_form]
       ELSE UNCHANGED <<data, eng>>
  /\ UNCHANGED <<teams, my_team, drafted_players, state_file, rankings, last,
                 external, call, boot>>
  /\ UNCHANGED procVars

SaveRecentFormDump ==
  /\ eng.scraper.pc = "dump"
  /\ data' = [data EXCEPT !.recent_form = eng.scraper.recent_form]
  /\ eng' = [eng EXCEPT !.scraper = [ScraperIdle EXCEPT
                                        !.runs = eng.scraper.runs + 1]]
  /\ UNCHANGED <<teams, my_team, drafted_players, state_file, rankings, last,
                 external, call, boot>>
  /\ UNCHANGED procVars

\* The time of the claims made before the engine is called has microseconds
\* (the engine reads neither last_updated nor the length of the file).
EngineStamps == {26}

\* No engine call has started on this DraftConfig.
Fresh == eng.calls = 0 /\ eng.pc = "idle"

\* Claims are made on a freshly loaded DraftConfig (every command of draft.py
\* loads its own); then the engine and the autocomplete request are called on
\* one DraftConfig, up to MaxCalls times, one call at a time (the handlers of
\* web/main.py have no await); the recent-form scraper may run at any time,
\* between two turns of the loop of get_recommendations too.
NextEngine ==
  \/ /\ Fresh
     /\ \E name \in PlayerNames :
          \E lst \in Orders(AddDrafted(drafted_players, name)), stamp \in EngineStamps :
            AddToTeam(name, DefaultTeam, "ok", lst, stamp)
  \/ /\ Fresh
     /\ \E name \in PlayerNames \cup VariantNames :
          \E lst \in Orders(AddDrafted(drafted_players, name)), stamp \in EngineStamps :
            MarkDrafted(name, "ok", lst, stamp)
  \/ /\ Fresh
     /\ \E stamp \in EngineStamps : Reset("ok", <<>>, stamp)
  \/ \E n \in NValues : GetRecommendations(DefaultTeam, n)
  \/ \E team_name \in UnknownTeams : GetRecommendations(team_name, 100)
  \/ \E i \in 1..NumPlayers : GetScoreBreakdown(i)
  \/ \E x \in ExcludeArgs : ReadTeam(DefaultTeam, x[1], x[2])
  \/ \E team_id \in UnknownTeams : ReadTeam(team_id, "", "")
  \/ \E x \in ExcludeArgs : Suggest(DefaultTeam, 1, x[1], x[2])
  \/ \E q \in EngineQueries : AutocompletePlayers(q)
  \/ ScoreNext
  \/ \E csv_file \in CsvFiles : SaveRecentFormOpen(csv_file)
  \/ SaveRecentFormDump

SpecEngine == InitEngine /\ [][NextEngine]_vars

\* ---- SpecMatch: _fuzzy_match_name on chosen names ---------------------------
\* Names as the rankings, the other files and the user spell them.
MatchStrings ==
  {"", "Son", " SON", "son\t", "Robertson", "Robert", "Kane", "Son Heung-Min",
   "Heung-Min Son", "HEUNG-MIN  SON ", "Son\tHeung-Min", "Bukayo Saka", "Saka"}

\* Every variable but call as after construction.
InitCall ==
  /\ InitLedger
  /\ eng = EngIdle
  /\ boot = NoBoot
  /\ data = BareData

InitMatch ==
  /\ InitCall
  /\ call \in {[op |-> "chosen", search_name |-> a, candidate_name |-> b] :
                 a \in MatchStrings, b \in MatchStrings}

\* config._fuzzy_match_name(search_name, candidate_name)
FuzzyMatchName ==
  /\ call.op = "chosen"
  /\ call' = [op |-> "fuzzy_match_name", search_name |-> call.search_name,
              candidate_name |-> call.candidate_name,
              out |-> fuzzy_match_name(call.search_name, call.candidate_name)]
  /\ UNCHANGED <<teams, my_team, drafted_players, state_file, rankings, last,
                 external, data, eng, boot>>
  /\ UNCHANGED procVars

NextMatch == FuzzyMatchName

SpecMatch == InitMatch /\ [][NextMatch]_vars

\* ---- SpecScore: functions of the engine on chosen arguments ----------------
\* A DraftConfig holding the rankings R and the files D, as a record.
ConfigOf(R, D) ==
  [rankings |-> R, stats |-> D.stats, injuries |-> D.injuries,
   afcon |-> D.afcon, league_config |-> D.league_config,
   recent_form |-> D.recent_form]

\* PlayerRecommendationEngine(config, my_team, drafted_players) on it.
EngineOf(R, D, roster, drafted) ==
  [config |-> ConfigOf(R, D), my_team |-> roster, drafted_players |-> drafted]

\* Names as passed to get_positional_rank: as the rankings spell them, as a
\* user types them, other spellings, and names of no player.
RankNames ==
  PlayerNames \cup TypedNames \cup VariantNames \cup UnknownNames
    \cup {" SON", "Heung-Min Son", ""}

RankInputs ==
  {[op |-> "chosen", fn |-> "get_positional_rank", rankings |-> RankingsTable(v),
    player_name |-> name] : v \in Versions, name \in RankNames}

\* engine.get_positional_rank(player_name)
GetPositionalRank ==
  /\ call.op = "chosen"
  /\ call.fn = "get_positional_rank"
  /\ call' = [op |-> "get_positional_rank", rankings |-> call.rankings,
              player_name |-> call.player_name,
              out |-> get_positional_rank(
                        EngineOf(call.rankings, BareData, <<>>, {}),
                        call.player_name)]
  /\ UNCHANGED <<teams, my_team, drafted_players, state_file, rankings, last,
                 external, data, eng, boot>>
  /\ UNCHANGED procVars

\* Points per game and positions of the player passed to calculate_base_value,
\* and the league configurations it is scored under (weight 1.0 where
\* 'positions' has no entry for the position string, 1.1 for "M" once edited).
FpgValues == 0..10
BasePositions == {"F", "M", "M,F"}
Leagues == {LeagueTemplate, LeagueEdited}

BaseInputs ==
  {[op |-> "chosen", fn |-> "calculate_base_value",
    player |-> [player |-> "Son", position |-> pos, fpg |-> f],
    league_config |-> lc] : f \in FpgValues, pos \in BasePositions, lc \in Leagues}

\* engine.calculate_base_value(player)
CalculateBaseValue ==
  /\ call.op = "chosen"
  /\ call.fn = "calculate_base_value"
  /\ call' = [op |-> "calculate_base_value", player |-> call.player,
              league_config |-> call.league_config,
              out |-> calculate_base_value(
                        EngineOf(rankings,
                                 [BareData EXCEPT !.league_config = call.league_config],
                                 <<>>, {}),
                        call.player)]
  /\ UNCHANGED <<teams, my_team, drafted_players, state_file, rankings, last,
                 external, data, eng, boot>>
  /\ UNCHANGED procVars

\* A rankings file of three forwards with equal ADP and 5, 8 and 2 points per
\* game, in that order in the list.
ScenarioList == <<"Saka", "Son", "Salah">>
ScenarioFpg == <<5, 8, 2>>
ScenarioTable ==
  [n \in Range(ScenarioList) |->
     LET i == CHOOSE k \in 1..Len(ScenarioList) : ScenarioList[k] = n
     IN [player |-> n, position |-> "F", team |-> "TOT", rank |-> i, adp |-> 20,
         fpts |-> 30 * ScenarioFpg[i], fpg |-> ScenarioFpg[i]]]

\* The data directories the three forwards are scored in: the two mandatory
\* files only, and those with a recent_form.json giving each the same form.
ScenarioForm ==
  [i \in 1..Len(ScenarioList) |->
     [player |-> ScenarioList[i], recent_fpg |-> Whole(4)]]
ScenarioDirs == {BareData, [BareData EXCEPT !.recent_form = ScenarioForm]}

\* A rankings file of one forward with 7 points per game, at an odd or an even
\* ADP (at round 1 an odd ADP puts the total on a tie between two hundredths),
\* with a recent_form.json giving him 3.0.
TieAdps == {3, 11, 12, 19}
TieTable(adp) ==
  [n \in {"Son"} |->
     [player |-> n, position |-> "F", team |-> "TOT", rank |-> 1, adp |-> adp,
      fpts |-> 100, fpg |-> 7]]
TieData ==
  [BareData EXCEPT !.recent_form = <<[player |-> "Son", recent_fpg |-> Whole(3)]>>]

RecommendInputs ==
  {[op |-> "chosen", fn |-> "get_recommendations", rankings |-> ScenarioTable,
    data |-> d, current_round |-> 1, n |-> 3] : d \in ScenarioDirs}
  \cup
  {[op |-> "chosen", fn |-> "get_recommendations", rankings |-> TieTable(adp),
    data |-> TieData, current_round |-> 1, n |-> 3] : adp \in TieAdps}

\* PlayerRecommendationEngine(config, [], set()).get_recommendations(1, 3)
Recommend ==
  /\ call.op = "chosen"
  /\ call.fn = "get_recommendations"
  /\ \E r \in get_recommendations(EngineOf(call.rankings, call.data, <<>>, {}),
                                    call.current_round, call.n) :
       call' = [op |-> "get_recommendations", rankings |-> call.rankings,
                data |-> call.data, n |-> call.n, raises |-> r.raises,
                out |-> [i \in 1..Len(r.out) |-> r.rankings[r.out[i]]]]
  /\ UNCHANGED <<teams, my_team, drafted_players, state_file, rankings, last,
                 external, data, eng, boot>>
  /\ UNCHANGED procVars

\* Severities an injuries.json entry may carry: the eight of the tables and
\* one that is in neither.
Severities ==
  {"Healthy", "Questionable", "Doubtful", "Short Term", "Medium Term",
   "Long Term", "Suspended", "Unknown", "Out"}

\* A data directory with every file, where injuries.json has one entry, for
\* Son with the given severity, and afcon_callups.json names Son or nobody.
InjuryData(severity, at_afcon) ==
  [FullData EXCEPT
     !.injuries = [loaded |-> TRUE,
                   injuries |-> <<[player |-> "Son", status |-> "Out",
                                   severity |-> severity]>>],
     !.afcon = IF at_afcon THEN <<"Son">> ELSE <<>>]

BreakdownInputs ==
  {[op |-> "chosen", fn |-> "get_score_breakdown", name |-> name,
    severity |-> s, at_afcon |-> a] :
     name \in PlayerNames, s \in Severities, a \in BOOLEAN}

\* engine.get_score_breakdown(player, 1) on a record get_all_available_players
\* returned.
ScoreBreakdown ==
  /\ call.op = "chosen"
  /\ call.fn = "get_score_breakdown"
  /\ \E e \in {EngineOf(rankings, InjuryData(call.severity, call.at_afcon),
                          <<>>, {})} :
     \E a \in {get_all_available_players(e.config, e.drafted_players)} :
     \E out \in get_score_breakdown([e EXCEPT !.config.rankings = a.rankings],
                                     a.rankings[call.name], CurrentRound) :
       call' = [op |-> "get_score_breakdown", name |-> call.name,
                severity |-> call.severity, at_afcon |-> call.at_afcon,
                injury |-> a.rankings[call.name].injury,
                out |-> out]
  /\ UNCHANGED <<teams, my_team, drafted_players, state_file, rankings, last,
                 external, data, eng, boot>>
  /\ UNCHANGED procVars

\* A roster entry at the given position, and the rosters of the requesting
\* team: empty, or holding forwards, a midfielder, a defender, or a player
\* listed at two positions.
RosterEntry(position) ==
  [player |-> "Salah", position |-> position, team |-> "LIV", adp |-> 40,
   fpts |-> 160, fpg |-> 4]
Rosters ==
  {<<>>, <<RosterEntry("F")>>, <<RosterEntry("F"), RosterEntry("F")>>,
   <<RosterEntry("M")>>, <<RosterEntry("D")>>, <<RosterEntry("M,F")>>}
NeedPositions == {"F", "M", "D", "G", "M,F"}

NeedInputs ==
  {[op |-> "chosen", fn |-> "calculate_position_need",
    player |-> [player |-> "Son", position |-> pos], my_team |-> roster,
    league_config |-> lc] :
     pos \in NeedPositions, roster \in Rosters, lc \in Leagues}

\* PlayerRecommendationEngine(config, my_team, ...).calculate_position_need(player)
CalculatePositionNeed ==
  /\ call.op = "chosen"
  /\ call.fn = "calculate_position_need"
  /\ call' = [op |-> "calculate_position_need", player |-> call.player,
              my_team |-> call.my_team, league_config |-> call.league_config,
              out |-> calculate_position_need(
                        EngineOf(rankings,
                                 [BareData EXCEPT !.league_config = call.league_config],
                                 call.my_team, {}),
                        call.player)]
  /\ UNCHANGED <<teams, my_team, drafted_players, state_file, rankings, last,
                 external, data, eng, boot>>
  /\ UNCHANGED procVars

ScoreInputs ==
  RankInputs \cup BaseInputs \cup RecommendInputs \cup BreakdownInputs
    \cup NeedInputs

InitScore ==
  /\ InitCall
  /\ call \in ScoreInputs

NextScore ==
  \/ GetPositionalRank
  \/ CalculateBaseValue
  \/ Recommend
  \/ ScoreBreakdown
  \/ CalculatePositionNeed

SpecScore == InitScore /\ [][NextScore]_vars

\* ---- SpecBoot: a command or the web application from its start -------------
\* The entry points that load a DraftConfig and may go on to the engine: the
\* commands suggest, pick and drafted of draft.py, and the web application.
BootEntries == {"suggest", "pick", "drafted", "web"}
CliEntries == BootEntries \ {"web"}

\* DraftConfig(): nothing loaded yet.
NoData ==
  [league_config |-> None, recent_form |-> <<>>, stats |-> <<>>,
   injuries |-> [loaded |-> FALSE, injuries |-> <<>>], afcon |-> <<>>]

\* The data directory a process starts in: adp_rankings.json and
\* league_config.json each there or missing, the other files as in BareData or
\* FullData.  As DraftConfig holds them after _load_json: None for a missing
\* file.
BootDirs ==
  {[rankings |-> IF has_rankings THEN RankingsTable(1) ELSE None,
    data |-> IF has_league THEN d ELSE [d EXCEPT !.league_config = None]] :
     has_rankings \in BOOLEAN, has_league \in BOOLEAN, d \in {BareData, FullData}}

\* data/draft_state.json when the process starts: missing, or as reset() of an
\* earlier run has written it.
BootFiles == {MissingFile} \cup {Dump(DefaultState, <<>>, stamp) : stamp \in StampLens}

InitBoot ==
  /\ teams = DefaultState.teams
  /\ my_team = DefaultState.my_team
  /\ drafted_players = DefaultState.drafted_players
  /\ state_file \in BootFiles
  /\ rankings = None
  /\ data = NoData
  /\ external = {}
  /\ last = [op |-> "init", player |-> "", team |-> "", ret |-> FALSE, msg |-> "",
             saved |-> FALSE, entry |-> NoRecord, out |-> <<>>,
             pre |-> [drafted |-> FALSE, on_roster |-> FALSE, known |-> FALSE]]
  /\ InitProc
  /\ eng = EngIdle
  /\ call = NoCall
  /\ boot \in {[entry |-> e, dir |-> d, pc |-> "start", ok |-> FALSE, requests |-> 0,
                 engine_calls |-> 0, scored |-> FALSE, raises |-> ""] :
                  e \in BootEntries, d \in BootDirs}

\* config.load_all_data(): every file is loaded, then False is returned when
\* league_config or rankings is None.  The commands test the value returned;
\* lifespan of the web application does not.
LoadAllData ==
  /\ boot.pc = "start"
  /\ rankings' = boot.dir.rankings
  /\ data' = boot.dir.data
  /\ boot' = [boot EXCEPT !.pc = "loaded",
                          !.ok = /\ boot.dir.data.league_config # None
                                 /\ boot.dir.rankings # None]
  /\ UNCHANGED <<teams, my_team, drafted_players, state_file, last, external, eng,
                 call>>
  /\ UNCHANGED procVars

\* 'suggest' after load_all_data: return when it failed (draft.py 104-106),
\* else engine.get_recommendations(1, n, exclude_team=..., ignore_position=...),
\* which raises TypeError before the body of the method runs.
BootSuggest ==
  /\ boot.entry = "suggest"
  /\ boot.pc = "loaded"
  /\ boot' = [boot EXCEPT !.pc = "done",
                          !.engine_calls = IF boot.ok THEN 1 ELSE 0,
                          !.raises = IF boot.ok THEN "TypeError" ELSE ""]
  /\ UNCHANGED <<teams, my_team, drafted_players, state_file, rankings, last,
                 external, data, eng, call>>
  /\ UNCHANGED procVars

\* The rest of a handler that claims a player, on its own DraftState(): the
\* file is rewritten when the handler reaches save().
ClaimHandler(c) ==
  \E r \in {HandlerCall(c, load(state_file))} :
    \E lst \in Orders(r.self.drafted_players), stamp \in StampLens :
      state_file' = IF r.saves THEN save(r.self, state_file, "ok", lst, stamp).file
                    ELSE state_file

\* 'pick' after load_all_data: return when it failed (draft.py 202-203), else
\* get_player_adp and add_to_team.
BootPick(player_name, team) ==
  /\ boot.entry = "pick"
  /\ boot.pc = "loaded"
  /\ IF boot.ok THEN ClaimHandler(Command("draft_player", player_name, team))
     ELSE UNCHANGED state_file
  /\ boot' = [boot EXCEPT !.pc = "done"]
  /\ UNCHANGED <<teams, my_team, drafted_players, rankings, last, external, data,
                 eng, call>>
  /\ UNCHANGED procVars

\* 'drafted' after load_all_data: return when it failed (draft.py 224-226),
\* else get_player_adp and mark_drafted.
BootDrafted(player_name) ==
  /\ boot.entry = "drafted"
  /\ boot.pc = "loaded"
  /\ IF boot.ok THEN ClaimHandler(Command("drafted", player_name, ""))
     ELSE UNCHANGED state_file
  /\ boot' = [boot EXCEPT !.pc = "done"]
  /\ UNCHANGED <<teams, my_team, drafted_players, rankings, last, external, data,
                 eng, call>>
  /\ UNCHANGED procVars

\* The web application serves a request, whatever load_all_data returned,
\* and one request at a time: no handler of web/main.py has an await.
Serving ==
  /\ boot.entry = "web"
  /\ boot.pc = "loaded"
  /\ boot.requests < MaxCalls
  /\ eng.pc = "idle"

\* POST /teams/{team_id}/draft
WebDraftPlayer(player_name, team_id) ==
  /\ Serving
  /\ ClaimHandler(Command("draft_player", player_name, team_id))
  /\ boot' = [boot EXCEPT !.requests = boot.requests + 1]
  /\ UNCHANGED <<teams, my_team, drafted_players, rankings, last, external, data,
                 eng, call>>
  /\ UNCHANGED procVars

\* POST /draft/mark_drafted
WebMarkDrafted(player_name) ==
  /\ Serving
  /\ ClaimHandler(Command("mark_player_drafted", player_name, ""))
  /\ boot' = [boot EXCEPT !.requests = boot.requests + 1]
  /\ UNCHANGED <<teams, my_team, drafted_players, rankings, last, external, data,
                 eng, call>>
  /\ UNCHANGED procVars

\* read_team gets as far as engine.get_recommendations (web/main.py 198): the
\* state file parses and holds the team.
ReachesEngine(file, team_id) ==
  /\ file.kind = "json"
  /\ team_id \in DOMAIN load(file).teams

\* get_recommendations gets as far as calculate_total_score (suggest.py 382):
\* the rankings are loaded and some player is available.
ReachesScoring(file) ==
  /\ rankings # None
  /\ get_all_available_players(Config, load(file).drafted_players).available # <<>>

\* The request is answered when the call of the engine is over.
Answered == IF eng'.pc = "idle" THEN eng'.raises ELSE boot.raises

\* GET /teams/{team_id}, as far as the first score.
WebReadTeam(team_id) ==
  /\ Serving
  /\ StartReadTeam(team_id, "", "")
  /\ boot' = [boot EXCEPT
                !.requests = boot.requests + 1,
                !.engine_calls =
                  IF ReachesEngine(state_file, team_id)
                  THEN boot.engine_calls + 1 ELSE boot.engine_calls,
                !.scored =
                  \/ boot.scored
                  \/ /\ ReachesEngine(state_file, team_id)
                     /\ ReachesScoring(state_file),
                !.raises = Answered]
  /\ UNCHANGED <<teams, my_team, drafted_players, state_file, last, external, data,
                 call>>
  /\ UNCHANGED procVars

\* GET /teams/{team_id}: the next turn of the loop of get_recommendations.
WebScoreNext ==
  /\ boot.entry = "web"
  /\ eng.pc = "scoring"
  /\ Advance(eng.run, rankings)
  /\ boot' = [boot EXCEPT !.raises = Answered]
  /\ UNCHANGED <<teams, my_team, drafted_players, state_file, last, external, data,
                 call>>
  /\ UNCHANGED procVars

\* save_recent_form runs beside the process, once it has loaded its data.
BootSaveRecentFormOpen(csv_file) ==
  /\ boot.pc = "loaded"
  /\ SaveRecentFormOpen(csv_file)

BootSaveRecentFormDump ==
  /\ boot.pc = "loaded"
  /\ SaveRecentFormDump

\* GET /api/players/autocomplete?q=...
WebAutocomplete(q) ==
  /\ Serving
  /\ \E r \in {autocomplete_players(state_file, q)} :
       /\ rankings' = r.rankings
       /\ boot' = [boot EXCEPT !.requests = boot.requests + 1,
                               !.raises = r.raises]
  /\ UNCHANGED <<teams, my_team, drafted_players, state_file, last, external, data,
                 eng, call>>
  /\ UNCHANGED procVars

NextBoot ==
  \/ LoadAllData
  \/ BootSuggest
  \/ \E name \in TypedNames \cup UnknownNames, team \in TeamNames : BootPick(name, team)
  \/ \E name \in TypedNames \cup UnknownNames : BootDrafted(name)
  \/ \E name \in TypedNames \cup UnknownNames, team \in TeamNames :
       WebDraftPlayer(name, team)
  \/ \E name \in TypedNames \cup UnknownNames : WebMarkDrafted(name)
  \/ \E team_id \in TeamNames : WebReadTeam(team_id)
  \/ \E q \in Queries : WebAutocomplete(q)
  \/ WebScoreNext
  \/ \E csv_file \in CsvFiles : BootSaveRecentFormOpen(csv_file)
  \/ BootSaveRecentFormDump

SpecBoot == InitBoot /\ [][NextBoot]_vars

\* ---- properties of the DraftState object ----------------------------------
RosterNames(T, t) == {T[t][i].player : i \in 1..Len(T[t])}
AllRosterNames(T) == UNION {RosterNames(T, t) : t \in DOMAIN T}

\* C1: no name is on the rosters of two teams, and no name is twice on one
\* roster: two roster positions holding the same name are the same position.
\* In particular a player claimed before, and not for this team, is not on this
\* team's roster after add_to_team.
C1_SingleClaim ==
  /\ \A t1 \in DOMAIN teams, t2 \in DOMAIN teams :
       \A i \in 1..Len(teams[t1]), j \in 1..Len(teams[t2]) :
         teams[t1][i].player = teams[t2][j].player => (t1 = t2 /\ i = j)
  /\ (last.op = "add_to_team" /\ last.pre.drafted /\ ~last.pre.on_roster)
       => last.player \notin RosterNames(teams, last.team)

\* A player on one team's roster has just been claimed for another team; the
\* call failed.
C1_Witness ==
  /\ last.op = "add_to_team"
  /\ ~last.ret
  /\ \E t \in DOMAIN teams : t # last.team /\ last.player \in RosterNames(teams, t)
  /\ last.player \notin RosterNames(teams, last.team)

\* C2: every name on a roster is in drafted_players, and drafted_players is
\* exactly the names on rosters together with the names claimed by
\* mark_drafted since the last reset.
C2_RosterClaimsConsistency ==
  /\ AllRosterNames(teams) \subseteq drafted_players
  /\ drafted_players = AllRosterNames(teams) \cup external

\* One player is on a roster and mark_drafted has just claimed another.
C2_Witness ==
  /\ AllRosterNames(teams) # {}
  /\ external \ AllRosterNames(teams) # {}
  /\ last.op = "mark_drafted"

\* C3: add_to_team of a player already in drafted_players fails with the
\* 'already drafted' outcome, whatever the team (also when the player is on
\* that team's roster: the global check is the one that answers).
C3_AlreadyClaimed ==
  (last.op = "add_to_team" /\ last.pre.drafted)
    => (~last.ret /\ last.msg = "AlreadyClaimed")

\* A player claimed by mark_drafted is then claimed for a team that was no key
\* of teams: the call fails as already drafted.
C3_Witness ==
  /\ last.op = "add_to_team"
  /\ last.pre.drafted
  /\ ~last.pre.known
  /\ last.player \in external
  /\ last.msg = "AlreadyClaimed"

\* The same for a player on the roster of the team named.
C3_WitnessSameTeam ==
  /\ last.op = "add_to_team"
  /\ last.pre.drafted
  /\ last.pre.on_roster
  /\ last.msg = "AlreadyClaimed"

\* The six fields of a rankings record.
SixFields(r) ==
  [player |-> r.player, position |-> r.position, team |-> r.team, adp |-> r.adp,
   fpts |-> r.fpts, fpg |-> r.fpg]

IsPrefix(s, t) == Len(s) <= Len(t) /\ \A i \in 1..Len(s) : s[i] = t[i]

\* C4: a successful add_to_team appends one entry, the six fields of the
\* player's rankings record, at the end of the team's roster and adds the name
\* to drafted_players; every other roster and every earlier entry stay as they
\* were; and a later reload of the rankings changes no roster.
C4_SuccessfulClaim ==
  /\ [][(last'.op = "add_to_team" /\ last'.ret) =>
         /\ teams'[last'.team] =
              Append(get_team(Self, last'.team), SixFields(rankings[last'.player]))
         /\ \A t \in DOMAIN teams : t \in DOMAIN teams' /\ IsPrefix(teams[t], teams'[t])
         /\ \A t \in DOMAIN teams' \ {last'.team} :
              t \in DOMAIN teams /\ teams'[t] = teams[t]
         /\ drafted_players' = drafted_players \cup {last'.player}]_vars
  /\ [][rankings' # rankings => teams' = teams]_vars

\* A roster of two entries, the second appended behind the first, and then a
\* reload of the rankings: the entries keep the ADP of the version they were
\* taken from, which is no longer the ADP in the rankings.
C4_Witness ==
  /\ last.op = "refresh"
  /\ \E t \in DOMAIN teams :
       /\ Len(teams[t]) = 2
       /\ teams[t][1].adp = RankingsTable(1)[teams[t][1].player].adp
       /\ teams[t][2].adp # rankings[teams[t][2].player].adp

\* C5: an add_to_team that fails leaves teams (its keys and its rosters) and
\* drafted_players as they were.
C5_FailedClaimChangesNothing ==
  [][(last'.op = "add_to_team" /\ ~last'.ret) =>
       (teams' = teams /\ drafted_players' = drafted_players)]_vars

\* C12: after reset() drafted_players is empty, teams is exactly the default
\* team with an empty roster, the state file holds that state (DraftState()
\* on it gives the reset object), and every
\* player (those claimed before the reset among them) can be added to any team.
C12_Reset ==
  last.op = "reset" =>
    /\ drafted_players = {}
    /\ DOMAIN teams = {DefaultTeam}
    /\ teams[DefaultTeam] = <<>>
    /\ load(state_file) = Self
    /\ \A name \in PlayerNames \cup Range([i \in 1..Len(last.out) |-> last.out[i].player]) :
         \A team_name \in TeamNames :
           LET r == add_to_team(Self, rankings[name], team_name)
           IN r.ret /\ OnRoster(r.self.teams[team_name], name)

\* The part of C12 the code keeps whatever save() does: the object is reset
\* and every player can be claimed again; the file holds the reset state
\* when save() has returned True.
ResetClearsObject ==
  last.op = "reset" =>
    /\ drafted_players = {}
    /\ DOMAIN teams = {DefaultTeam}
    /\ teams[DefaultTeam] = <<>>
    /\ last.saved => (state_file.kind = "json" /\ load(state_file) = Self)
    /\ \A name \in PlayerNames \cup Range([i \in 1..Len(last.out) |-> last.out[i].player]) :
         \A team_name \in TeamNames :
           LET r == add_to_team(Self, rankings[name], team_name)
           IN r.ret /\ OnRoster(r.self.teams[team_name], name)

\* C13: get_team never fails, returns the roster of a team that has one and
\* the empty sequence for a team that has none, and changes nothing: no key is
\* added to teams, no roster, drafted_players and the state file stay as they
\* were.
C13_RosterOf ==
  [][last'.op = "get_team" =>
       /\ last'.ret
       /\ last'.out = (IF last'.team \in DOMAIN teams THEN teams[last'.team]
                       ELSE <<>>)
       /\ teams' = teams
       /\ my_team' = my_team
       /\ drafted_players' = drafted_players
       /\ state_file' = state_file]_vars

\* get_team of a team that is no key of teams has returned the empty sequence
\* while another team has a roster, and the team is still no key of teams.
C13_Witness ==
  /\ last.op = "get_team"
  /\ ~last.pre.known
  /\ last.out = <<>>
  /\ last.team \notin DOMAIN teams
  /\ AllRosterNames(teams) # {}

\* C6: after add_to_team, mark_drafted or reset has reported success, the
\* state file holds the object's state.
C6_WriteThrough ==
  (last.op \in {"add_to_team", "mark_drafted", "reset"} /\ last.ret)
    => load(state_file) = Self

\* ---- properties of the commands -------------------------------------------
\* C7: marking a player who is already in drafted_players changes nothing in
\* the ledger and is not answered with an error (so marking twice is marking
\* once).
C7_MarkIdempotent ==
  [][\A p \in Procs :
       (/\ pc[p] = "loaded"
        /\ pc'[p] \in {"save", "respond"}
        /\ cmd[p].op \in MarkOps
        /\ ExactName(cmd[p]) \in proc[p].drafted_players)
       => (proc'[p] = proc[p] /\ resp'[p] # "error")]_vars

\* self holds every claim of the set C: the name in drafted_players and, for
\* a claim for a team, on that team's roster.
Holds(self, C) ==
  \A c \in C :
    /\ c.player \in self.drafted_players
    /\ c.team # "" => /\ c.team \in DOMAIN self.teams
                      /\ OnRoster(self.teams[c.team], c.player)

\* C8: whatever a process loads from the state file holds every claim of the
\* commands that ran to their end, also after a process died in mid-command.
C8_CrashSafety ==
  \A p \in Procs : pc[p] = "loaded" => Holds(proc[p], completed)

\* C9: no player is acknowledged as drafted to two teams, and once all
\* commands have ended every acknowledged claim is in the state file.
C9_OneWinner ==
  /\ \A a \in acked, b \in acked : a.player = b.player => a.team = b.team
  /\ (\A p \in Procs : pc[p] = "idle") => Holds(load(state_file), acked)

\* C10: no read of the state file finds it incomplete.
C10_AtomicRead ==
  \A p \in Procs : observed[p] # "partial"

\* No record of the rankings has a name the fuzzy match accepts for the name
\* typed in command c.
Unresolved(c) == \A n \in PlayerNames : ~fuzzy_match_name(c.player, n)

\* C11: a pick / draft or an external mark by a name that resolves to no
\* record of the rankings is answered "not found" (not the 'already drafted'
\* answer), changes nothing in the DraftState object and writes nothing to the
\* state file, up to the end of the command; and the "not found" answer is
\* given to no name that resolves.
C11_UnknownCandidate ==
  /\ [][\A p \in Procs :
          (/\ pc[p] = "loaded"
           /\ pc'[p] # "loaded"
           /\ cmd[p].op \in MarkOps \cup {"draft_player"}
           /\ Unresolved(cmd[p]))
          => /\ resp'[p] = "not_found"
             /\ proc'[p] = proc[p]
             /\ pc'[p] = "respond"
             /\ state_file' = state_file]_vars
  /\ [][\A p \in Procs :
          (/\ pc[p] = "respond"
           /\ cmd[p].op \in MarkOps \cup {"draft_player"}
           /\ Unresolved(cmd[p]))
          => (state_file' = state_file /\ acked' = acked
              /\ completed' = completed)]_vars
  /\ [][\A p \in Procs :
          (resp'[p] = "not_found" /\ resp[p] # "not_found")
            => Unresolved(cmd[p])]_vars

\* A command by an unknown name has been answered "not found" while the state
\* file holds claims, a roster entry among them.
C11_Witness ==
  /\ \E p \in Procs : /\ pc[p] = "idle"
                       /\ resp[p] = "not_found"
                       /\ cmd[p].op = "draft_player"
  /\ state_file.kind = "json"
  /\ AllRosterNames(load(state_file).teams) # {}

\* ---- properties of the engine ---------------------------------------------
\* The names of the records a call has returned, in order.
OutNames == [i \in 1..Len(eng.out) |-> eng.out[i].player]

\* C14: no record returned by get_recommendations (called directly or by
\* read_team) has a name that fuzzy_match_name matches to a name in
\* drafted_players.
C14_FilterUsesResolver ==
  eng.op \in {"get_recommendations", "read_team"} =>
    \A i \in 1..Len(eng.out) :
      \A c \in drafted_players : ~fuzzy_match_name(eng.out[i].player, c)

\* get_recommendations(1, 100) has returned a list without a player whose
\* name is not in drafted_players as a string, but matches a name that is.
C14_Witness ==
  /\ eng.op = "get_recommendations"
  /\ eng.raises = ""
  /\ eng.n = 100
  /\ eng.out # <<>>
  /\ \E name \in PlayerNames :
       /\ name \notin drafted_players
       /\ \E c \in drafted_players : fuzzy_match_name(name, c)
       /\ name \notin Range(OutNames)

\* The names of the rankings that pass the filter of get_all_available_players.
Candidates == {name \in PlayerNames : ~is_drafted(name, drafted_players)}

\* Record a comes before record b in the sorted list: by score, larger
\* first, and by the order of the rankings when the scores are equal.
Before(a, b) ==
  \/ a.recommendation_score > b.recommendation_score
  \/ /\ a.recommendation_score = b.recommendation_score
     /\ PlayerIndex(a.player) < PlayerIndex(b.player)

\* C15: get_recommendations(round, n) returns a list of at most n records,
\* exactly min(n, number of candidates) for n >= 0, sorted by score in
\* descending order, records of equal score in the order of the rankings, and
\* a prefix of the sorted list of all candidates.
C15_SortedPrefix ==
  eng.op = "get_recommendations" =>
    /\ eng.raises = ""
    /\ Len(eng.out) <= eng.n
    /\ eng.n >= 0 =>
         Len(eng.out) = (IF eng.n < Cardinality(Candidates) THEN eng.n
                         ELSE Cardinality(Candidates))
    /\ \A i \in 1..Len(eng.out) : \A j \in (i + 1)..Len(eng.out) :
         Before(eng.out[i], eng.out[j])
    /\ \A i \in 1..Len(eng.out) :
         \A name \in Candidates \ Range(OutNames) :
           Before(eng.out[i], rankings[name])

\* The part of C15 the code keeps: what a call that raised nothing returns
\* for n >= 0.
SortedPrefixWhenReturned ==
  (eng.op = "get_recommendations" /\ eng.raises = "" /\ eng.n >= 0) =>
    /\ Len(eng.out) = (IF eng.n < Cardinality(Candidates) THEN eng.n
                       ELSE Cardinality(Candidates))
    /\ \A i \in 1..Len(eng.out) : \A j \in (i + 1)..Len(eng.out) :
         Before(eng.out[i], eng.out[j])
    /\ \A i \in 1..Len(eng.out) :
         \A name \in Candidates \ Range(OutNames) :
           Before(eng.out[i], rankings[name])

\* The position codes of a record: its comma-joined position list, split,
\* in upper case.
PositionCodes(p) ==
  LET parts == split_on(Chars(p.position), ",")
  IN {upper(strip(parts[i])) : i \in 1..Len(parts)}

\* C16: no record returned by a call that names clubs or positions to
\* exclude ('suggest' or GET /teams/{team_id}) has an excluded club, compared
\* without regard to case, or an excluded code anywhere in its position list.
C16_Exclusion ==
  eng.op \in {"read_team", "suggest"} =>
    \A i \in 1..Len(eng.out) :
      /\ upper(Chars(eng.out[i].team)) \notin ExcludedSet(eng.exclude_teams)
      /\ PositionCodes(eng.out[i]) \cap ExcludedSet(eng.exclude_positions) = {}

RepeatedCallAgrees ==
  eng.steady => (eng.raises = eng.first.raises /\ eng.out = eng.first.out)

\* The sum of the eight component values of a breakdown, in hundredths.
ComponentSum(b) ==
  b.base_value + b.club_bonus + b.adp_value + b.form_value + b.injury_penalty
    + b.position_need + b.scarcity + b.positional_value

\* C18: for a record get_recommendations has returned, the same round and
\* the same recent_form.json, the component values of get_score_breakdown add
\* up to the record's recommendation_score, and the breakdown's total is
\* that score.
C18_BreakdownConsistency ==
  (eng.op = "get_score_breakdown" /\ eng.same_form) =>
    /\ eng.breakdown.raises = ""
    /\ ComponentSum(eng.breakdown) = rankings[eng.player].recommendation_score
    /\ eng.breakdown.total = rankings[eng.player].recommendation_score

\* The part of C18 the code keeps: the breakdown's total is the score.
BreakdownTotalIsScore ==
  (eng.op = "get_score_breakdown" /\ eng.same_form) =>
    /\ eng.breakdown.raises = ""
    /\ eng.breakdown.total = rankings[eng.player].recommendation_score

\* The step is a step of a call of one of ops: the call starts, scores a
\* player, or ends.
StepOf(ops) ==
  \/ eng'.pc = "scoring" /\ eng'.run # eng.run /\ eng'.run.op \in ops
  \/ eng'.calls = eng.calls + 1 /\ eng'.op \in ops

\* C19: get_recommendations and get_score_breakdown leave the records of the
\* rankings and the ledger (teams, drafted_players, the state file) as they
\* were before the call, at every step of the call.
C19_ReadsSideEffectFree ==
  [][StepOf({"get_recommendations", "get_score_breakdown"})
     => /\ rankings' = rankings
        /\ teams' = teams
        /\ my_team' = my_team
        /\ drafted_players' = drafted_players
        /\ state_file' = state_file]_vars

\* The part of C19 the code keeps: the ledger is untouched by both calls, and
\* get_score_breakdown changes no record.
ReadsLeaveLedger ==
  [][StepOf({"get_recommendations", "get_score_breakdown"})
     => /\ teams' = teams
        /\ my_team' = my_team
        /\ drafted_players' = drafted_players
        /\ state_file' = state_file
        /\ eng'.op = "get_score_breakdown" => rankings' = rankings]_vars

\* C20: scoring does not fail when stats, injuries or recent form are
\* missing: get_recommendations raises nothing, and for every candidate the
\* recent-form component is computed, from the recent-form entry when one
\* resolves and else 10.0 without season stats, 5.0 when matches_played is 0
\* and min(matches_played / 15, 1) * 100 * 0.20 otherwise.
C20_MissingEnrichment ==
  eng.op = "get_recommendations" =>
    /\ eng.raises = ""
    /\ \A name \in Candidates :
         LET engine == Engine(get_team(Self, eng.team), drafted_players)
         IN calculate_form_value(engine, rankings[name])
              = calculate_form_value_fallback(engine, rankings[name])

\* ---- further properties of the DraftState object --------------------------
\* C25: no name is on a team's roster without being in drafted_players, so
\* add_to_team never fails with the 'already on this team' outcome.
C25_DuplicateUnreachable ==
  /\ \A t \in DOMAIN teams : RosterNames(teams, t) \subseteq drafted_players
  /\ last.msg # "DuplicateOnRoster"

\* A player on a team's roster has been claimed for that team again: the
\* call has failed, and not by the roster check.
C25_Witness ==
  /\ last.op = "add_to_team"
  /\ last.pre.on_roster
  /\ ~last.ret
  /\ OnRoster(teams[last.team], last.player)
  /\ Len(teams[last.team]) = 2

\* C29: an add_to_team or mark_drafted call, whether it succeeds or fails,
\* removes no name from drafted_players and no team from teams, and leaves
\* every roster entry where and as it was: each roster before the call is a
\* prefix of the roster after it.
C29_LedgerGrows ==
  [][last'.op \in {"add_to_team", "mark_drafted"} =>
       /\ drafted_players \subseteq drafted_players'
       /\ DOMAIN teams \subseteq DOMAIN teams'
       /\ \A t \in DOMAIN teams : IsPrefix(teams[t], teams'[t])
       /\ my_team' = my_team]_vars

\* A player already claimed has been marked again while two names are
\* claimed, one of them on a roster, and teams has two keys: nothing was lost.
C29_Witness ==
  /\ last.op = "mark_drafted"
  /\ last.pre.drafted
  /\ \E t \in DOMAIN teams : Len(teams[t]) = 1
  /\ Cardinality(drafted_players) = 2
  /\ Cardinality(DOMAIN teams) = 2

\* C30: DraftState() on the file a save() has written, as json.dump writes it
\* and json.load reads it, is the object that was saved (the object as it is
\* when the save() was that of the last call): the same drafted_players as a
\* set, the same teams with every roster in its order, the same my_team; on
\* a file that is missing, cut short or followed by other bytes it is the
\* default state.
C30_RoundTrip ==
  call.op = "load" =>
    IF call.exists /\ call.intact
    THEN /\ call.loaded = call.object
         /\ last.saved => call.loaded = Self
    ELSE call.loaded = DefaultState

\* DraftState() has loaded the text of a file that holds two claims, one of
\* them on a roster and one a name written with an escape, and a team whose
\* name holds quotes.
C30_Witness ==
  /\ call.op = "load"
  /\ call.intact
  /\ last.saved
  /\ "son\t" \in call.loaded.drafted_players
  /\ Cardinality(call.loaded.drafted_players) = 2
  /\ Cardinality(AllRosterNames(call.loaded.teams)) = 1
  /\ "\"A\" Team" \in DOMAIN call.loaded.teams

\* The text and the file record: the file record says whether the file is
\* there, load of the record is load_text of the text, and a text a save()
\* has written is as long as DocSize counts.
TextAgreesWithDocument ==
  /\ call.exists = (state_file.kind # "missing")
  /\ load_text(call) = load(state_file)
  /\ (call.exists /\ call.intact) => Len(call.text) = FileSize(state_file)

\* ---- properties of the name matching --------------------------------------
\* A name in lower case without leading and trailing whitespace.
Normal(name) == strip(lower(Chars(name)))

\* The whitespace-separated tokens of a sequence of characters: the runs
\* without whitespace that whitespace or an end of the sequence bounds.
Tokens(s) ==
  {SubSeq(s, i, j) : <<i, j>> \in
     {ij \in (1..Len(s)) \X (1..Len(s)) :
        /\ ij[1] <= ij[2]
        /\ \A k \in ij[1]..ij[2] : s[k] \notin Whitespace
        /\ ij[1] = 1 \/ s[ij[1] - 1] \in Whitespace
        /\ ij[2] = Len(s) \/ s[ij[2] + 1] \in Whitespace}}

\* The matching policy: equal, one contained in the other, or every token
\* of the query contained in some token of the candidate.
Matches(query, candidate) ==
  LET q == Normal(query)
      c == Normal(candidate)
  IN \/ q = c
     \/ contains(c, q)
     \/ contains(q, c)
     \/ \A t \in Tokens(q) : \E u \in Tokens(c) : contains(u, t)

\* C22: _fuzzy_match_name returns True exactly when the matching policy
\* holds for the two names in lower case without outer whitespace, and its
\* result is the same for every spelling of either name that differs in
\* letter case or outer whitespace only.
C22_MatchPolicy ==
  call.op = "fuzzy_match_name" =>
    /\ call.out = Matches(call.search_name, call.candidate_name)
    /\ \A v \in MatchStrings :
         /\ Normal(v) = Normal(call.search_name)
              => fuzzy_match_name(v, call.candidate_name) = call.out
         /\ Normal(v) = Normal(call.candidate_name)
              => fuzzy_match_name(call.search_name, v) = call.out

\* Two names have matched by their tokens only: they are not equal and
\* neither contains the other.
C22_Witness ==
  /\ call.op = "fuzzy_match_name"
  /\ call.out
  /\ Normal(call.search_name) # Normal(call.candidate_name)
  /\ ~contains(Normal(call.search_name), Normal(call.candidate_name))
  /\ ~contains(Normal(call.candidate_name), Normal(call.search_name))
  /\ Normal(call.search_name) # Chars(call.search_name)

\* ---- properties of the functions of the engine ----------------------------
\* The records of R whose position string contains the position of record c.
SharingPosition(R, c) ==
  {n \in DOMAIN R : contains(Chars(R[n].position), Chars(c.position))}

\* C23: the positional rank of a name is the 1-based place, by points per
\* game, of the candidate the name resolves to among the candidates sharing
\* its position: one more than the number of those with more points per game,
\* hence between 1 and their number; it is 999 exactly when the name resolves
\* to no candidate.
C23_PositionalRank ==
  call.op = "get_positional_rank" =>
    LET R == call.rankings
        c == get_player_adp(R, call.player_name)
        sharing == SharingPosition(R, c)
    IN /\ (call.out = 999) <=> (c = NoRecord)
       /\ c # NoRecord =>
            /\ call.out \in 1..Cardinality(sharing)
            /\ call.out = 1 + Cardinality({n \in sharing : R[n].fpg > c.fpg})

\* The base value of the formula: min(min(fpg / 6 * 100, 100) * weight * 0.30, 30)
BaseValueOf(fpg, weight) ==
  min(Times(Times(min(Times(Over(Whole(fpg), Whole(6)), Whole(100)), Whole(100)),
                  weight), Dec(30)), Whole(30))

\* The base value returned is the formula's on the player's points per game
\* and the weight of its position, is at most 30, and is exactly 30 for 8.0
\* points per game and weight 1.0.
BaseValueFormula ==
  call.op = "calculate_base_value" =>
    LET weight == Get(call.league_config.positions, call.player.position, Whole(1))
    IN /\ call.out = BaseValueOf(call.player.fpg, weight)
       /\ ~Less(Whole(30), call.out)
       /\ (call.player.fpg = 8 /\ weight = Whole(1)) => call.out = Whole(30)

\* get_recommendations(1, 3) on the three forwards and an empty ledger returns
\* the three of them, the one with 8 points per game first.
ScenarioRanked ==
  (call.op = "get_recommendations" /\ call.rankings = ScenarioTable /\ call.n = 3) =>
    /\ call.raises = ""
    /\ {call.out[i].player : i \in 1..Len(call.out)} = Range(ScenarioList)
    /\ Len(call.out) = 3
    /\ call.out[1].fpg = 8

\* C24: the base value is min(min(fpg / 6 * 100, 100) * weight * 0.30, 30),
\* never more than 30 and exactly 30 for 8.0 points per game at weight 1.0;
\* and with an empty ledger, three forwards of 8.0, 5.0 and 2.0 points per
\* game and equal ADP are all returned by get_recommendations(1, 3), the one
\* with 8.0 first.
C24_BaseValue == BaseValueFormula /\ ScenarioRanked

\* The same scenario holds once recent_form.json has an entry for each of the
\* three.
ScenarioRankedWithForm ==
  (call.op = "get_recommendations" /\ call.data.recent_form = ScenarioForm) =>
    /\ call.raises = ""
    /\ Len(call.out) = 3
    /\ <<call.out[1].fpg, call.out[2].fpg, call.out[3].fpg>> = <<8, 5, 2>>

\* The multiplier table of the availability component, in hundredths.
MultiplierTable(severity) ==
  CASE severity = "Healthy" -> 100
    [] severity = "Questionable" -> 85
    [] severity = "Doubtful" -> 60
    [] severity = "Short Term" -> 40
    [] severity = "Medium Term" -> 25
    [] severity = "Long Term" -> 10
    [] severity = "Suspended" -> 50
    [] severity = "Unknown" -> 90

\* C26: for a player not away at the tournament and each of the eight
\* availability statuses, the injury multiplier the breakdown reports is the
\* one of the table, and the availability component of the breakdown is that
\* multiplier times 15.
C26_ReportedMultiplier ==
  (/\ call.op = "get_score_breakdown"
   /\ call.out.raises = ""
   /\ ~call.at_afcon
   /\ call.injury.severity \in Severities \ {"Out"}) =>
    /\ call.out.injury_multiplier = MultiplierTable(call.injury.severity)
    /\ call.out.injury_penalty = call.out.injury_multiplier * 15

\* The position codes listed in a position string.
CodesOf(position) == {c \in {"G", "D", "M", "F"} : contains(Chars(position), Chars(c))}

\* The roster entries sharing a position with the candidate.
SharingEntries(roster, position) ==
  {i \in 1..Len(roster) : CodesOf(roster[i].position) \cap CodesOf(position) # {}}

\* For a candidate listed at one position: 3.0 * multiplier when the roster
\* holds at least the cap of entries sharing it, else 15.0 * multiplier when it
\* holds none, else 10.0 * multiplier.
NeedAtOnePosition ==
  (call.op = "calculate_position_need" /\ Cardinality(CodesOf(call.player.position)) = 1) =>
    LET count == Cardinality(SharingEntries(call.my_team, call.player.position))
        cap == Get(call.league_config.roster_rules, call.player.position, 0)
        mult == position_multiplier(call.player)
    IN call.out = IF count >= cap THEN Times(Whole(3), mult)
                  ELSE IF count = 0 THEN Times(Whole(15), mult)
                  ELSE Times(Whole(10), mult)

\* C27: the position need is 3.0, 15.0 or 10.0 times the position multiplier,
\* decided in that order by the number of roster entries sharing the
\* candidate's position (at least the cap; none; otherwise); a candidate every
\* position of which has a positive cap, with no roster entry at any of them,
\* gets 15.0 times the multiplier, also when it is listed at two positions.
C27_PositionNeed ==
  /\ NeedAtOnePosition
  /\ (/\ call.op = "calculate_position_need"
      /\ \A c \in CodesOf(call.player.position) :
           Get(call.league_config.roster_rules, c, 0) > 0
      /\ SharingEntries(call.my_team, call.player.position) = {}) =>
       call.out = Times(Whole(15), position_multiplier(call.player))

\* ---- the ledger and the engine ---------------------------------------------
\* C28: a player of the rankings that add_to_team would not refuse as already
\* drafted (its name is not in drafted_players) is not left out of the list
\* get_recommendations returns for being drafted: when the call returns and n
\* is at least the number of players, the player is in the list.
C28_ClaimedAgreement ==
  (eng.op = "get_recommendations" /\ eng.raises = "" /\ eng.n >= NumPlayers) =>
    \A name \in PlayerNames :
      ~AlreadyDrafted(Self, name) => name \in Range(OutNames)

\* ---- properties of the start of a process ----------------------------------
\* load_all_data has returned False in this process.
LoadFailed == boot.pc # "start" /\ ~boot.ok

\* The commands of draft.py go nowhere near the engine after a failed load.
CliHaltsOnFailedLoad ==
  (boot.entry \in CliEntries /\ LoadFailed) => (boot.engine_calls = 0 /\ ~boot.scored)

\* C21: in a process in which load_all_data has found league_config.json or
\* adp_rankings.json missing, get_recommendations has not been called and no
\* player has been scored, whichever entry point the process was started by
\* and however long it has run (engine_calls and scored record all of its
\* past).
C21_HaltBeforeScoring ==
  LoadFailed => (boot.engine_calls = 0 /\ ~boot.scored)
====
